---------------------------- MODULE Spec2Model ----------------------------
(***************************************************************************)
(* Connect6Solver: the search tree (Solver/tree.py), the orchestrator      *)
(* (Solver/solver.py) and the oracle result decoding (Solver/engine.py,    *)
(* Solver/utils.py), as a state machine over an arena of SolverNode        *)
(* objects.  Python exceptions are modelled as outcomes: a call that       *)
(* raises leaves its name in `outcome` and control returns to the caller.  *)
(***************************************************************************)
EXTENDS Integers, Sequences, FiniteSets, TLC

\* ------------------------------------------------------------- bounds ----
MaxNodes == 3          \* size of the node arena (objects ever allocated)
MaxLoad == 2           \* nodes in a loaded job
MaxMoves == 2          \* nodes in the move fragment of one oracle output
MaxSimulations == 1    \* largest `simulations` argument tried
MaxTreeNodes == 4       \* nodes in a record handed to the parser

Nodes == 1..MaxNodes
None == 0              \* Python None for a node reference

\* ------------------------------------------------------- program data ----
\* BoardState (Solver/types.py)
UNKNOWN == "UNKNOWN"
BLACK_WIN == "BLACK_WIN"
WHITE_WIN == "WHITE_WIN"
BoardState == {UNKNOWN, BLACK_WIN, WHITE_WIN}

\* colour keys a move node carries
Keys == {"B", "W"}

\* result_to_winrate's MAPPING, scores in tenths (1 -> 10, 0.9 -> 9, ...)
MAPPING ==
  [ t \in {"B:w", "B:a_w", "a-b:B3", "a-b:B2", "a-b:B1", "a-b:stable",
           "a-b:unstable", "a-b:w1", "a-b:w2", "a-b:w3", "W:a_w", "W:w"} |->
      CASE t = "B:w" -> 10
        [] t = "B:a_w" -> 9
        [] t = "a-b:B3" -> 7
        [] t = "a-b:B2" -> 5
        [] t = "a-b:B1" -> 3
        [] t = "a-b:stable" -> 0
        [] t = "a-b:unstable" -> 0
        [] t = "a-b:w1" -> -3
        [] t = "a-b:w2" -> -5
        [] t = "a-b:w3" -> -7
        [] t = "W:a_w" -> -9
        [] t = "W:w" -> -10 ]

\* first comments an oracle output may carry: the vocabulary and one stranger
Comments == DOMAIN MAPPING \cup {"??"}

VARIABLES
  root,          \* Tree.root: a node or None
  used,          \* number of SolverNode objects allocated so far (ids 1..used)
  parent,        \* node -> parent reference (None when detached or root)
  children,      \* node -> its child list (child / next_sibling chain), in order
  key,           \* node -> the colour key of its move property
  status,        \* node -> BoardState
  visit_count,   \* node -> int
  winrate,       \* node -> accumulated score (tenths)
  pc,            \* where Solver.solve stands; "idle" outside a call
  i,             \* solve: iterations of the for loop already left behind
  simulations,   \* solve: its argument
  leaf,          \* solve: the node selection() returned
  result,        \* solve: the EvaluationResult in hand
  evals,         \* solve: oracle evaluations issued in the current iteration
  call,          \* the method called last: "none", "set_job", "solve", "expand", ...
  outcome,       \* how that call ended: "none" (running), "returned" or the exception
  expanded_win,  \* history: nodes whose status expand() took from result.state
  begun,         \* history: the tree as it was when the running iteration of solve began
  best_child,    \* run_solver.main: the child it reports as best move, or None
  sgf,           \* SGFParser.parse: the text being parsed, one character per element
  ps,            \* SGFParser.parse_iterator: its locals and the nodes it has allocated
  node_pool,     \* cparser.SGFParser.node_pool: NoPool (None) or the pool
  node_pool_thread, \* cparser.SGFParser.node_pool_thread: the worker and its locals
  cp,            \* cparser.SGFParser.parse: where it stands, its locals, the nodes made
  go             \* Go.compare_node: two nodes and what the two calls on them returned

vars == << root, used, parent, children, key, status, visit_count, winrate,
           pc, i, simulations, leaf, result, evals, call, outcome, expanded_win,
           begun, best_child, sgf, ps, node_pool, node_pool_thread, cp,
           go >>

treeVars == << root, used, parent, children, key, status, visit_count, winrate,
               expanded_win >>
solveVars == << pc, i, simulations, leaf, result, evals, begun >>
poolVars == << node_pool, node_pool_thread, cp >>
parseVars == << sgf, ps, poolVars, go >>

\* ---- the accelerated parser before any call of its parse ----
MaxPoolSize == 3
MaxParsedNodes == 3
PoolNodes == 1..(MaxPoolSize + MaxParsedNodes)

\* self.node_pool = None (cparser.py:148)
NoPool == [size |-> -1, nodes |-> << >>, index |-> 0]

\* self.node_pool_thread = None (cparser.py:149)
NoThread == [state |-> "none", estimated_size |-> 0, pool |-> NoPool]

\* cparser.SGFParser.parse not yet called on a text with `semicolons` characters
\* ';' for which the C++ parser reports the parents `parent_indices`
CpStart(semicolons, parent_indices) ==
  [pc |-> "idle", semicolons |-> semicolons, parent_indices |-> parent_indices,
   nodes |-> << >>, i |-> 0, allocated |-> 0,
   parent |-> [n \in PoolNodes |-> 0], children |-> [n \in PoolNodes |-> << >>]]

\* two nodes on which compare_node has not been called yet
GoStart(node1, node2) ==
  [node1 |-> node1, node2 |-> node2,
   called12 |-> FALSE, result12 |-> 0, called21 |-> FALSE, result21 |-> 0]

PoolIdle ==
  /\ node_pool = NoPool
  /\ node_pool_thread = NoThread
  /\ cp = CpStart(0, << -1 >>)
  /\ go = GoStart(<< >>, << >>)

\* what solve's iteration can change: the tree's shape and each node's statistics
SnapshotOf(u, p, c, s, v, w) ==
  [used |-> u, parent |-> p, children |-> c, status |-> s, visit_count |-> v, winrate |-> w]

NoSnapshot ==
  SnapshotOf(0, [n \in Nodes |-> None], [n \in Nodes |-> << >>],
             [n \in Nodes |-> UNKNOWN], [n \in Nodes |-> 0], [n \in Nodes |-> 0])

NoResult == [moves |-> None, score |-> 0, state |-> UNKNOWN]

\* the dummy root of parse_iterator, which is no allocated node and is not None
Dummy == -1

\* parse_iterator before its first token (parser.py:46-60); `cached` tells
\* whether cache_values is a list (TRUE) or None, and parent, children and
\* props hold the nodes the allocator has handed out, in allocation order
ParserStart ==
  [index |-> 0, stack |-> << >>, current |-> Dummy,
   cache_tag |-> << >>, cached |-> FALSE, cache_values |-> << >>,
   next_can_be_left_paren |-> TRUE, next_can_be_right_paren |-> FALSE,
   next_can_be_semicolon |-> FALSE, next_can_be_tag |-> FALSE,
   next_can_be_value |-> FALSE,
   parent |-> << >>, children |-> << >>, props |-> << >>,
   dummy_child |-> None, yielded |-> None, yields |-> << >>,
   err |-> "none", err_msg |-> "", err_start |-> 0, err_end |-> 0, done |-> FALSE]

\* SolverNode.__init__ and Tree.__init__ / Solver.__init__
InitSolver ==
  /\ root = None
  /\ used = 0
  /\ parent = [n \in Nodes |-> None]
  /\ children = [n \in Nodes |-> << >>]
  /\ key = [n \in Nodes |-> "B"]
  /\ status = [n \in Nodes |-> UNKNOWN]
  /\ visit_count = [n \in Nodes |-> 0]
  /\ winrate = [n \in Nodes |-> 0]
  /\ pc = "idle"
  /\ i = 0
  /\ simulations = 0
  /\ leaf = None
  /\ result = NoResult
  /\ evals = 0
  /\ call = "none"
  /\ outcome = "none"
  /\ expanded_win = {}
  /\ begun = NoSnapshot
  /\ best_child = None

\* a solver whose jobs come as trees: no text is in the parser
Init ==
  /\ InitSolver
  /\ sgf = << >>
  /\ ps = ParserStart
  /\ PoolIdle


\* --------------------------------------------------- node operations ----
\* BaseSGFNode.add_child: the child goes to the end of the parent's child
\* list and its parent reference is set
AddChild(t, node, child) ==
  [t EXCEPT !.children[node] = Append(@, child), !.parent[child] = node]

\* the next_sibling chain starting at m (tree.py: `while ptr: ... ptr.next_sibling`)
SiblingList(t, m) ==
  IF t.parent[m] = None
    THEN << m >>
    ELSE LET sibs == t.children[t.parent[m]]
             at == CHOOSE k \in 1..Len(sibs) : sibs[k] = m
         IN SubSeq(sibs, at, Len(sibs))

RECURSIVE AddChildren(_, _, _)
AddChildren(t, node, moves) ==
  IF moves = << >> THEN t
  ELSE AddChildren(AddChild(t, node, Head(moves)), node, Tail(moves))

\* Expand with the adoption of the moves made one more branch of the elif
\* chain on result.state
ExpandAdoptsOnlyWhenUnknown(t, node, res) ==
  IF res.state = BLACK_WIN THEN [t EXCEPT !.status[node] = BLACK_WIN]
  ELSE IF res.state = WHITE_WIN THEN [t EXCEPT !.status[node] = WHITE_WIN]
  ELSE IF res.moves # None THEN AddChildren(t, node, SiblingList(t, res.moves))
  ELSE t

\* Expand with node.status = result.state written whatever the state is
ExpandCopiesState(t, node, res) ==
  LET t0 == [t EXCEPT !.status[node] = res.state]
  IN IF res.moves # None
       THEN AddChildren(t0, node, SiblingList(t0, res.moves))
       ELSE t0

\* Expand that goes through the sibling list of the moves a second time
ExpandAdoptsTwice(t, node, res) ==
  LET t0 == IF res.state = BLACK_WIN THEN [t EXCEPT !.status[node] = BLACK_WIN]
            ELSE IF res.state = WHITE_WIN THEN [t EXCEPT !.status[node] = WHITE_WIN]
            ELSE t
  IN IF res.moves # None
       THEN AddChildren(AddChildren(t0, node, SiblingList(t0, res.moves)),
                        node, SiblingList(t0, res.moves))
       ELSE t0

\* Expand with the adoption turned round (move.add_child(node) at tree.py:37):
\* the node is hung below each of the moves
ExpandHangsNodeBelowMoves(t, node, res) ==
  LET t0 == IF res.state = BLACK_WIN THEN [t EXCEPT !.status[node] = BLACK_WIN]
            ELSE IF res.state = WHITE_WIN THEN [t EXCEPT !.status[node] = WHITE_WIN]
            ELSE t
  IN IF res.moves # None
       THEN AddChild(t0, res.moves, node)
       ELSE t0

\* Tree.expand(node, res) on the tree t = [status, parent, children]: the
\* tree after the call
Expand(t, node, res) ==
  LET t0 == IF res.state = BLACK_WIN THEN [t EXCEPT !.status[node] = BLACK_WIN]
            ELSE IF res.state = WHITE_WIN THEN [t EXCEPT !.status[node] = WHITE_WIN]
            ELSE t
  IN IF res.moves # None
       THEN AddChildren(t0, node, SiblingList(t0, res.moves))
       ELSE t0

\* update_node_status with is_black_turn bound to True: the Black-to-move
\* branch (tree.py:70-77) is taken at every node
UpdateNodeStatusBlackTurn(st, node) ==
  IF Len(children[node]) = 0 THEN [err |-> "none", status |-> st]
  ELSE LET kids == {children[node][k] : k \in 1..Len(children[node])}
       IN IF \E ch \in kids : st[ch] = BLACK_WIN
            THEN [err |-> "none", status |-> [st EXCEPT ![node] = BLACK_WIN]]
          ELSE IF \A ch \in kids : st[ch] = WHITE_WIN
            THEN [err |-> "none", status |-> [st EXCEPT ![node] = WHITE_WIN]]
          ELSE [err |-> "none", status |-> st]

\* Tree.update_node_status on the statuses st: a node without children is left
\* alone; for any other node the test of the unbound name is_black_turn raises
\* NameError before a status is written
UpdateNodeStatus(st, node) ==
  IF Len(children[node]) = 0 THEN [err |-> "none", status |-> st]
  ELSE [err |-> "NameError", status |-> st]

\* Tree.backpropagate(node): update_node_status at node and at every ancestor
RECURSIVE BackpropagateFrom(_, _)
BackpropagateFrom(st, current) ==
  IF current = None THEN [err |-> "none", status |-> st]
  ELSE LET r == UpdateNodeStatus(st, current)
       IN IF r.err # "none" THEN r ELSE BackpropagateFrom(r.status, parent[current])

Backpropagate(node) == BackpropagateFrom(status, node)

\* a call tree.backpropagate(*args): the method takes exactly one argument
\* besides self, any other number of arguments raises TypeError
CallBackpropagate(args) ==
  IF Len(args) # 1 THEN [err |-> "TypeError", status |-> status]
  ELSE Backpropagate(args[1])

\* ---------------------------------------------------------- selection ----
\* 1000 * math.log(np), rounded down, for the parent visit counts in reach
LogMilli(np) ==
  CASE np = 1 -> 0
    [] np = 2 -> 693
    [] np = 3 -> 1098
    [] np = 4 -> 1386
    [] np = 5 -> 1609
    [] np = 6 -> 1791
    [] np = 7 -> 1945
    [] OTHER -> 2079

\* integer square root
SqrtFloor(x) == CHOOSE r \in 0..2100 : r * r <= x /\ (r + 1) * (r + 1) > x

\* tree.py:103, in thousandths: winrate / visit_count + c * sqrt(log(np) / visit_count)
\* with c * c = 2.  The left division is evaluated first and raises
\* ZeroDivisionError for an unvisited child; math.log raises ValueError for np = 0.
NowScore(ch, np) ==
  IF visit_count[ch] = 0 THEN [err |-> "ZeroDivisionError", val |-> 0]
  ELSE IF np <= 0 THEN [err |-> "ValueError: math domain error", val |-> 0]
  ELSE [err |-> "none",
        val |-> (100 * winrate[ch]) \div visit_count[ch]
                + SqrtFloor((2000 * LogMilli(np)) \div visit_count[ch])]

\* the scan of selection with >= in the place of > at tree.py:104: of several
\* children with the largest value the last one is kept
RECURSIVE ScanChildrenKeepsLast(_, _, _, _)
ScanChildrenKeepsLast(xd, id, mxid, mxval) ==
  IF id >= Len(children[xd]) THEN [err |-> "none", mxid |-> mxid]
  ELSE LET s == NowScore(children[xd][id + 1], visit_count[xd])
       IN IF s.err # "none" THEN [err |-> s.err, mxid |-> mxid]
          ELSE IF mxid = -1 \/ s.val >= mxval
            THEN ScanChildrenKeepsLast(xd, id + 1, id, s.val)
            ELSE ScanChildrenKeepsLast(xd, id + 1, mxid, mxval)

\* the inner while loop of selection (tree.py:102-108) from child index id on;
\* mxid = -1 stands for "mxval is still -1e18"
RECURSIVE ScanChildren(_, _, _, _)
ScanChildren(xd, id, mxid, mxval) ==
  IF id >= Len(children[xd]) THEN [err |-> "none", mxid |-> mxid]
  ELSE LET s == NowScore(children[xd][id + 1], visit_count[xd])
       IN IF s.err # "none" THEN [err |-> s.err, mxid |-> mxid]
          ELSE IF mxid = -1 \/ s.val > mxval
            THEN ScanChildren(xd, id + 1, id, s.val)
            ELSE ScanChildren(xd, id + 1, mxid, mxval)

\* the outer while loop of selection (tree.py:96-109)
RECURSIVE Descend(_)
Descend(xd) ==
  IF Len(children[xd]) = 0 THEN [err |-> "none", node |-> xd]
  ELSE LET s == ScanChildren(xd, 0, -1, 0)
       IN IF s.err # "none" THEN [err |-> s.err, node |-> None]
          ELSE Descend(children[xd][s.mxid + 1])

\* MCTS.selection
Selection ==
  IF root = None THEN [err |-> "AttributeError", node |-> None]
  ELSE Descend(root)

\* ------------------------------------------------------------- oracle ----
\* result_to_winrate: the score of a vocabulary token, ValueError otherwise
ResultToWinrate(c) ==
  IF c \in DOMAIN MAPPING THEN [err |-> "none", val |-> MAPPING[c]]
  ELSE [err |-> "ValueError", val |-> 0]

\* _parse_result with a threshold in the place of the equality tests of
\* engine.py:34-37: a near win (0.9) counts as a win
ParseResultNearWin(c, moves) ==
  LET w == ResultToWinrate(c)
      score == IF w.err = "none" THEN w.val ELSE 0
      state == IF score >= 9 THEN BLACK_WIN
               ELSE IF score <= -9 THEN WHITE_WIN
               ELSE UNKNOWN
  IN [moves |-> moves, score |-> score, state |-> state]

\* NCTU6Engine._parse_result on an output whose first comment is c and whose
\* move fragment parsed to the node `moves`: a ValueError of the lookup is
\* swallowed and the score stays 0.0
ParseResult(c, moves) ==
  LET w == ResultToWinrate(c)
      score == IF w.err = "none" THEN w.val ELSE 0
      state == IF score = 10 THEN BLACK_WIN
               ELSE IF score = -10 THEN WHITE_WIN
               ELSE UNKNOWN
  IN [moves |-> moves, score |-> score, state |-> state]

\* the nodes the parser allocates for a move fragment of keys ks (a Sequence:
\* each node the only child of the one before), with SolverNode's initial
\* statistics; returns the new arena fields
FragmentNodes(ks) ==
  LET ids == (used + 1)..(used + Len(ks))
  IN [used |-> used + Len(ks),
      key |-> [n \in Nodes |-> IF n \in ids THEN ks[n - used] ELSE key[n]],
      parent |-> [n \in Nodes |-> IF n \in ids /\ n > used + 1 THEN n - 1 ELSE parent[n]],
      children |-> [n \in Nodes |->
                     IF n \in ids /\ n < used + Len(ks) THEN << n + 1 >> ELSE children[n]]]

KeySeqs(m) == UNION {[1..k -> Keys] : k \in 1..m}

\* ------------------------------------------------------------ loading ----
\* the node itself and its ancestors under the parent vector pv
RECURSIVE PathToRoot(_, _)
PathToRoot(pv, j) == IF j = 0 THEN {} ELSE {j} \cup PathToRoot(pv, pv[j])

\* the trees of k nodes the parser builds, nodes numbered in the order of their
\* NODE_START tokens: a node hangs below the node before it or below one of
\* that node's ancestors (a SubTree opened after a closed group)
Shapes(k) ==
  {pv \in [1..k -> 0..(k - 1)] :
     /\ pv[1] = 0
     /\ \A j \in 2..k : pv[j] < j /\ pv[j] > 0
     /\ \A j \in 2..k : pv[j] \in PathToRoot(pv, j - 1)}

RECURSIVE Ascending(_)
Ascending(S) ==
  IF S = {} THEN << >>
  ELSE LET m == CHOOSE x \in S : \A y \in S : x <= y
       IN << m >> \o Ascending(S \ {m})

\* Solver.set_job / Tree.load_sgf: the parser allocates the job's nodes with
\* the tree's allocator and the first node becomes the root.  A solver is
\* given its job once (run_solver.py:22).
SetJob(k, pv, ks) ==
  /\ pc = "idle"
  /\ root = None
  /\ used + k <= MaxNodes
  /\ LET ids == (used + 1)..(used + k)
     IN /\ root' = used + 1
        /\ used' = used + k
        /\ key' = [n \in Nodes |-> IF n \in ids THEN ks[n - used] ELSE key[n]]
        /\ parent' = [n \in Nodes |->
                        IF n \in ids
                          THEN (IF pv[n - used] = 0 THEN None ELSE pv[n - used] + used)
                          ELSE parent[n]]
        /\ children' = [n \in Nodes |->
                          IF n \in ids
                            THEN Ascending({used + j : j \in {x \in 1..k : pv[x] = n - used}})
                            ELSE children[n]]
  /\ call' = "set_job"
  /\ outcome' = "returned"
  /\ UNCHANGED << status, visit_count, winrate, expanded_win, solveVars,
                  best_child, parseVars >>

\* -------------------------------------------------------- Solver.solve ----
Wins == {BLACK_WIN, WHITE_WIN}

\* solve is left, by return or by an exception: its locals die
Leave(how) ==
  /\ outcome' = how
  /\ pc' = "idle"
  /\ i' = 0
  /\ simulations' = 0
  /\ leaf' = None
  /\ result' = NoResult
  /\ evals' = 0
  /\ begun' = NoSnapshot

\* SolveCall without the check of solver.py:24-25: the loop is entered even
\* when no job is set
SolveCallUnchecked(n) ==
  /\ pc = "idle"
  /\ call' = "solve"
  /\ pc' = "loop"
  /\ i' = 0
  /\ simulations' = n
  /\ outcome' = "none"
  /\ begun' = SnapshotOf(used, parent, children, status, visit_count, winrate)
  /\ UNCHANGED << leaf, result, evals >>
  /\ UNCHANGED << treeVars, best_child, parseVars >>

\* solver.py:24-25: the call and its check that a job is set
SolveCall(n) ==
  /\ pc = "idle"
  /\ call' = "solve"
  /\ IF root = None
       THEN Leave("ValueError: No job set")
       ELSE /\ pc' = "loop"
            /\ i' = 0
            /\ simulations' = n
            /\ outcome' = "none"
            /\ begun' = SnapshotOf(used, parent, children, status, visit_count, winrate)
            /\ UNCHANGED << leaf, result, evals >>
  /\ UNCHANGED << treeVars, best_child, parseVars >>

\* SolveSelect with a selection() that counts a visit of the node it returns
SolveSelectCountsVisit ==
  /\ pc = "loop"
  /\ i < simulations
  /\ LET s == Selection
     IN IF s.err # "none"
          THEN Leave(s.err) /\ visit_count' = visit_count
          ELSE /\ leaf' = s.node
               /\ evals' = 0
               /\ pc' = IF status[s.node] # UNKNOWN THEN "revisit" ELSE "evaluate"
               /\ visit_count' = [visit_count EXCEPT ![s.node] = @ + 1]
               /\ UNCHANGED << outcome, result, i, simulations, begun >>
  /\ UNCHANGED << root, used, parent, children, key, status, winrate, expanded_win,
                  call, best_child, parseVars >>

\* solver.py:27-32: the next iteration of the for loop starts with selection()
SolveSelect ==
  /\ pc = "loop"
  /\ i < simulations
  /\ LET s == Selection
     IN IF s.err # "none"
          THEN Leave(s.err)
          ELSE /\ leaf' = s.node
               /\ evals' = 0
               /\ pc' = IF status[s.node] # UNKNOWN THEN "revisit" ELSE "evaluate"
               /\ UNCHANGED << outcome, result, i, simulations, begun >>
  /\ UNCHANGED << treeVars, call, best_child, parseVars >>

\* the for loop is exhausted: solve returns
SolveReturn ==
  /\ pc = "loop"
  /\ i >= simulations
  /\ Leave("returned")
  /\ UNCHANGED << treeVars, call, best_child, parseVars >>

\* solver.py:33-40: the result made up for a leaf whose status is st
RevisitResult(st) ==
  [moves |-> None, score |-> IF st = BLACK_WIN THEN 10 ELSE -10, state |-> st]

\* solver.py:32-42: the leaf is already resolved; a terminal result is made up
\* and backpropagate is called with two arguments, then `continue`
SolveRevisit ==
  /\ pc = "revisit"
  /\ LET res == RevisitResult(status[leaf])
         r == CallBackpropagate(<< leaf, res >>)
     IN /\ status' = r.status
        /\ IF r.err # "none"
             THEN Leave(r.err)
             ELSE /\ i' = i + 1
                  /\ pc' = "loop"
                  /\ result' = res
                  /\ begun' = SnapshotOf(used, parent, children, r.status,
                                         visit_count, winrate)
                  /\ UNCHANGED << outcome, simulations, leaf, evals >>
  /\ UNCHANGED << root, used, parent, children, key, visit_count, winrate,
                  expanded_win, call, best_child, parseVars >>

\* solver.py:44-54: engine.evaluate(leaf); when the leaf has a parent the
\* sibling moves are asked from Tree.collect_child_moves, a method the tree
\* does not have, which raises AttributeError
\* the oracle's output has the first comment c and a move fragment of keys ks
SolveEvaluateOn(c, ks) ==
  /\ pc = "evaluate"
  /\ used + Len(ks) <= MaxNodes
  /\ LET f == FragmentNodes(ks)
     IN /\ used' = f.used
        /\ key' = f.key
        /\ parent' = f.parent
        /\ children' = f.children
        /\ IF parent[leaf] # None
             THEN Leave("AttributeError")
             ELSE /\ pc' = "expand"
                  /\ result' = ParseResult(c, used + 1)
                  /\ evals' = evals + 1
                  /\ UNCHANGED << outcome, i, simulations, leaf, begun >>
  /\ UNCHANGED << root, status, visit_count, winrate, expanded_win, call,
                  best_child, parseVars >>

SolveEvaluate == \E c \in Comments, ks \in KeySeqs(MaxMoves) : SolveEvaluateOn(c, ks)

\* the oracle cannot be run or its output cannot be taken apart
\* (execute_nctu6, parse_nctu6_output raise)
SolveEvaluateFails ==
  /\ pc = "evaluate"
  /\ Leave("OracleError")
  /\ UNCHANGED << treeVars, call, best_child, parseVars >>

\* solver.py:56-57
SolveExpand ==
  /\ pc = "expand"
  /\ LET e == Expand([status |-> status, parent |-> parent, children |-> children],
                     leaf, result)
     IN /\ status' = e.status
        /\ parent' = e.parent
        /\ children' = e.children
  /\ expanded_win' = IF result.state \in Wins THEN expanded_win \cup {leaf}
                     ELSE expanded_win
  /\ pc' = "backprop"
  /\ UNCHANGED << root, used, key, visit_count, winrate,
                  i, simulations, leaf, result, evals, call, outcome,
                  begun, best_child, parseVars >>

\* solver.py:58-63: backpropagate is called with two arguments; then the root
\* check ends the loop or the next iteration follows
SolveBackpropagate ==
  /\ pc = "backprop"
  /\ LET r == CallBackpropagate(<< leaf, result >>)
     IN /\ status' = r.status
        /\ IF r.err # "none"
             THEN Leave(r.err)
             ELSE IF r.status[root] # UNKNOWN
               THEN Leave("returned")
               ELSE /\ i' = i + 1
                    /\ pc' = "loop"
                    /\ begun' = SnapshotOf(used, parent, children, r.status,
                                           visit_count, winrate)
                    /\ UNCHANGED << outcome, simulations, leaf, result, evals >>
  /\ UNCHANGED << root, used, parent, children, key, visit_count, winrate,
                  expanded_win, call, best_child, parseVars >>

\* ------------------------------------- the Tree's methods called directly ----
\* tree.expand(n, result) with the result of an oracle output
TreeExpand(n, c, ks) ==
  /\ pc = "idle"
  /\ n \in 1..used
  /\ used + Len(ks) <= MaxNodes
  /\ LET f == FragmentNodes(ks)
         res == ParseResult(c, used + 1)
         e == Expand([status |-> status, parent |-> f.parent, children |-> f.children],
                     n, res)
     IN /\ used' = f.used
        /\ key' = f.key
        /\ status' = e.status
        /\ parent' = e.parent
        /\ children' = e.children
        /\ expanded_win' = IF res.state \in Wins THEN expanded_win \cup {n}
                           ELSE expanded_win
  /\ call' = "expand"
  /\ outcome' = "returned"
  /\ UNCHANGED << root, visit_count, winrate, solveVars, best_child, parseVars >>

\* tree.expand(n, result) with a result that carries no moves (as the one
\* solve makes up for a resolved leaf)
TreeExpandNoMoves(n, st) ==
  /\ pc = "idle"
  /\ n \in 1..used
  /\ LET res == [moves |-> None, score |-> 0, state |-> st]
         e == Expand([status |-> status, parent |-> parent, children |-> children],
                     n, res)
     IN /\ status' = e.status
        /\ parent' = e.parent
        /\ children' = e.children
        /\ expanded_win' = IF res.state \in Wins THEN expanded_win \cup {n}
                           ELSE expanded_win
  /\ call' = "expand"
  /\ outcome' = "returned"
  /\ UNCHANGED << root, used, key, visit_count, winrate, solveVars,
                  best_child, parseVars >>

\* tree.backpropagate(n)
TreeBackpropagate(n) ==
  /\ pc = "idle"
  /\ n \in 1..used
  /\ LET r == CallBackpropagate(<< n >>)
     IN /\ status' = r.status
        /\ outcome' = IF r.err = "none" THEN "returned" ELSE r.err
  /\ call' = "backpropagate"
  /\ UNCHANGED << root, used, parent, children, key, visit_count, winrate,
                  expanded_win, solveVars, best_child, parseVars >>

\* ---------------------------------------------- sgf_tool.lexer.SGFLexer ----
\* the characters of \w and of \s that the texts below are made of
WordChars == {"B", "a"}
SpaceChars == {" "}

\* the offset just behind the longest run of characters of C that starts at
\* offset idx (a pattern C+ matched at idx)
RECURSIVE RunEnd(_, _, _)
RunEnd(s, idx, C) ==
  IF idx < Len(s) /\ s[idx + 1] \in C THEN RunEnd(s, idx + 1, C) ELSE idx

\* the ends of the matches of \[[\S\s]*?[^\\]\] at offset idx: a "]" behind at
\* least one character, the last of which is no backslash
ValueEnds(s, idx) ==
  {e \in (idx + 3)..Len(s) : s[e] = "]" /\ s[e - 1] # "\\"}

Token(type, s, start, end) ==
  [type |-> type, value |-> SubSeq(s, start + 1, end), start |-> start, end |-> end]

\* SGFLexer.next_token at offset idx: None ("END") at the end of the text,
\* else the first rule of SGFTokenRules that matches, else LexicalError
NextToken(s, idx) ==
  IF idx >= Len(s) THEN Token("END", s, idx, idx)
  ELSE LET c == s[idx + 1]
       IN IF c = "(" THEN Token("LEFT_PAREN", s, idx, idx + 1)
          ELSE IF c = ")" THEN Token("RIGHT_PAREN", s, idx, idx + 1)
          ELSE IF c = ";" THEN Token("SEMICOLON", s, idx, idx + 1)
          ELSE IF c \in WordChars THEN Token("TAG", s, idx, RunEnd(s, idx, WordChars))
          ELSE IF c = "[" /\ idx + 1 < Len(s) /\ s[idx + 2] = "]"
            THEN Token("EMPTY_VALUE", s, idx, idx + 2)
          ELSE IF c = "[" /\ ValueEnds(s, idx) # {}
            THEN Token("VALUE", s, idx,
                       CHOOSE e \in ValueEnds(s, idx) : \A f \in ValueEnds(s, idx) : e <= f)
          ELSE IF c \in SpaceChars THEN Token("IGNORE", s, idx, RunEnd(s, idx, SpaceChars))
          ELSE Token("LexicalError", s, idx, idx + 1)

\* ---------------------------------------------- sgf_tool.parser.SGFParser ----
\* the two kinds of things on parse_iterator's stack
NodeItem(n) == [paren |-> FALSE, node |-> n, start |-> 0, end |-> 0]
ParenItem(tok) == [paren |-> TRUE, node |-> Dummy, start |-> tok.start, end |-> tok.end]

\* a raise: the generator is finished with the exception
Fail(p, kind, msg, start, end) ==
  [p EXCEPT !.err = kind, !.err_msg = msg, !.err_start = start, !.err_end = end,
            !.done = TRUE]

\* the "update states" blocks
States(p, lp, rp, sc, tg, vl) ==
  [p EXCEPT !.next_can_be_left_paren = lp, !.next_can_be_right_paren = rp,
            !.next_can_be_semicolon = sc, !.next_can_be_tag = tg,
            !.next_can_be_value = vl]

\* node[tag] = values on a node's ordered mapping pr of pairs << tag, values >>
SetProp(pr, tag, values) ==
  IF \E k \in 1..Len(pr) : pr[k][1] = tag
    THEN [k \in 1..Len(pr) |-> IF pr[k][1] = tag THEN << tag, values >> ELSE pr[k]]
    ELSE Append(pr, << tag, values >>)

\* "store tag and value to current node if needed", without the yield
Store(p) ==
  IF p.cached
    THEN [p EXCEPT !.props[p.current] = SetProp(@, p.cache_tag, p.cache_values),
                   !.cached = FALSE, !.cache_values = << >>]
    ELSE p

\* the same with a yield of the current node whether or not something was
\* cached for it
StoreAndYieldUncached(p) ==
  IF p.current # Dummy
    THEN [Store(p) EXCEPT !.yielded = IF @ = None THEN p.current ELSE @,
                          !.yields = Append(@, p.current)]
    ELSE p

\* the same with the yield of the node: parse() keeps the first node yielded;
\* yields is the sequence of the nodes the generator has yielded
StoreAndYield(p) ==
  IF p.cached
    THEN [Store(p) EXCEPT !.yielded = IF @ = None THEN p.current ELSE @,
                          !.yields = Append(@, p.current)]
    ELSE p


\* the dummy root with the add_child of every other node: the child's parent
\* reference is set to the dummy root, and any number of children is taken
DummyAddChildAsNode(p, child) ==
  [p EXCEPT !.dummy_child = IF @ = None THEN child ELSE @, !.parent[child] = Dummy]

\* __DummyNode.add_child (parser.py:28-32): the dummy root takes one child
\* and sets its own child link only, the child's parent reference stays None
DummyAddChild(p, child) ==
  IF p.dummy_child # None
    THEN Fail(p, "RuntimeError", "Dummy node cannot have more than one child", 0, 0)
    ELSE [p EXCEPT !.dummy_child = child]

\* node_allocator.allocate(): a node without parent, children and properties
Allocate(p) ==
  [p EXCEPT !.parent = Append(@, None), !.children = Append(@, << >>),
            !.props = Append(@, << >>)]

\* OnLeftParen that pushes the "(" token without the current node beneath it
OnLeftParenTokenOnly(p, tok) ==
  IF ~p.next_can_be_left_paren
    THEN Fail(p, "SGFError", "Unexpected left parentheses", tok.start, tok.end)
    ELSE States([p EXCEPT !.stack = Append(@, ParenItem(tok))],
                FALSE, FALSE, TRUE, FALSE, FALSE)

\* parser.py:67-80
OnLeftParen(p, tok) ==
  IF ~p.next_can_be_left_paren
    THEN Fail(p, "SGFError", "Unexpected left parentheses", tok.start, tok.end)
    ELSE States([p EXCEPT !.stack = Append(Append(@, NodeItem(p.current)), ParenItem(tok))],
                FALSE, FALSE, TRUE, FALSE, FALSE)

\* parser.py:97-106, "pop until '('": the stack below the topmost "(" token
RECURSIVE PopToParen(_)
PopToParen(stack) ==
  IF stack = << >> THEN [found |-> FALSE, stack |-> << >>]
  ELSE IF stack[Len(stack)].paren
    THEN [found |-> TRUE, stack |-> SubSeq(stack, 1, Len(stack) - 1)]
    ELSE PopToParen(SubSeq(stack, 1, Len(stack) - 1))

\* OnRightParen that leaves `current` where it is when the group closes
OnRightParenKeepsCurrent(p, tok) ==
  IF ~p.next_can_be_right_paren
    THEN Fail(p, "SGFError", "Unexpected right parentheses", tok.start, tok.end)
  ELSE IF Len(p.stack) = 0
    THEN Fail(p, "SGFError", "Unmatched right parentheses", tok.start, tok.end)
  ELSE LET q == StoreAndYield(p)
           r == PopToParen(q.stack)
       IN IF ~r.found
            THEN Fail(q, "SGFError", "Unmatched right parentheses", tok.start, tok.end)
            ELSE States([q EXCEPT !.stack = SubSeq(r.stack, 1, Len(r.stack) - 1)],
                        TRUE, TRUE, FALSE, FALSE, FALSE)

\* parser.py:82-116
OnRightParen(p, tok) ==
  IF ~p.next_can_be_right_paren
    THEN Fail(p, "SGFError", "Unexpected right parentheses", tok.start, tok.end)
  ELSE IF Len(p.stack) = 0
    THEN Fail(p, "SGFError", "Unmatched right parentheses", tok.start, tok.end)
  ELSE LET q == StoreAndYield(p)
           r == PopToParen(q.stack)
       IN IF ~r.found
            THEN Fail(q, "SGFError", "Unmatched right parentheses", tok.start, tok.end)
          ELSE IF r.stack = << >>
            THEN Fail(q, "IndexError", "pop from empty list", 0, 0)
          ELSE States([q EXCEPT !.stack = SubSeq(r.stack, 1, Len(r.stack) - 1),
                                !.current = r.stack[Len(r.stack)].node],
                      TRUE, TRUE, FALSE, FALSE, FALSE)

\* OnSemicolon without the test of next_can_be_semicolon
OnSemicolonUnchecked(p, tok) ==
  LET q == StoreAndYield(p)
      new == Len(q.parent) + 1
      a == Allocate([q EXCEPT !.stack = Append(@, NodeItem(q.current)), !.current = new])
      b == IF q.current = Dummy THEN DummyAddChild(a, new) ELSE AddChild(a, q.current, new)
  IN IF b.err # "none" THEN b ELSE States(b, FALSE, FALSE, FALSE, TRUE, FALSE)

\* OnSemicolon with a dummy root that takes every child given to it
OnSemicolonDummyTakesAll(p, tok) ==
  IF ~p.next_can_be_semicolon
    THEN Fail(p, "SGFError", "Unexpected semicolon", tok.start, tok.end)
    ELSE LET q == StoreAndYield(p)
             new == Len(q.parent) + 1
             a == Allocate([q EXCEPT !.stack = Append(@, NodeItem(q.current)),
                                     !.current = new])
             b == IF q.current = Dummy THEN [a EXCEPT !.dummy_child = new]
                  ELSE AddChild(a, q.current, new)
         IN States(b, FALSE, FALSE, FALSE, TRUE, FALSE)

\* parser.py:118-140
OnSemicolon(p, tok) ==
  IF ~p.next_can_be_semicolon
    THEN Fail(p, "SGFError", "Unexpected semicolon", tok.start, tok.end)
    ELSE LET q == StoreAndYield(p)
             new == Len(q.parent) + 1
             a == Allocate([q EXCEPT !.stack = Append(@, NodeItem(q.current)),
                                     !.current = new])
             b == IF q.current = Dummy THEN DummyAddChild(a, new)
                  ELSE AddChild(a, q.current, new)
         IN IF b.err # "none" THEN b ELSE States(b, FALSE, FALSE, FALSE, TRUE, FALSE)

\* parser.py:142-159
OnTag(p, tok) ==
  IF ~p.next_can_be_tag
    THEN Fail(p, "SGFError", "Unexpected tag", tok.start, tok.end)
    ELSE States([Store(p) EXCEPT !.cache_tag = tok.value],
                FALSE, FALSE, FALSE, FALSE, TRUE)

\* parser.py:161-176: the value is the token's text without its brackets
OnValue(p, tok) ==
  IF ~p.next_can_be_value
    THEN Fail(p, "SGFError", "Unexpected value", tok.start, tok.end)
    ELSE States([p EXCEPT !.cached = TRUE,
                          !.cache_values = Append(@, SubSeq(tok.value, 2, Len(tok.value) - 1))],
                TRUE, TRUE, TRUE, TRUE, TRUE)

\* the topmost "(" token of the stack (parser.py:187-192)
RECURSIVE LastLeftParen(_)
LastLeftParen(stack) ==
  IF stack = << >> THEN NodeItem(Dummy)
  ELSE IF stack[Len(stack)].paren THEN stack[Len(stack)]
  ELSE LastLeftParen(SubSeq(stack, 1, Len(stack) - 1))

\* BaseSGFNode.detach on node n: its parent reference is cleared and the parent,
\* if it is an allocated node, lists it no more
Detach(p, n) ==
  IF n = None \/ p.parent[n] = None THEN p
  ELSE IF p.parent[n] = Dummy THEN [p EXCEPT !.parent[n] = None]
  ELSE [p EXCEPT !.parent[n] = None,
                 !.children[p.parent[n]] = SelectSeq(@, LAMBDA c : c # n)]

\* AtEnd reporting every leftover as the whole text being unmatched
AtEndWholeText(p, len) ==
  IF Len(p.stack) > 0
    THEN Fail(p, "SGFError", "Unmatched parentheses", 0, len)
  ELSE IF p.yielded = None
    THEN Fail(p, "AssertionError", "", 0, 0)
  ELSE [Detach(p, p.dummy_child) EXCEPT !.done = TRUE]

\* parser.py:184-203 and SGFParser.parse (parser.py:37-43): the end of the
\* text; the child of the dummy root is detached from it; parse returns the
\* first node yielded and asserts there is one
AtEnd(p, len) ==
  IF Len(p.stack) > 0
    THEN LET item == LastLeftParen(p.stack)
         IN IF item.paren
              THEN Fail(p, "SGFError", "Unmatched left parentheses", item.start, item.end)
              ELSE Fail(p, "SGFError", "Unmatched parentheses", 0, len)
  ELSE IF p.yielded = None
    THEN Fail(p, "AssertionError", "", 0, 0)
  ELSE [Detach(p, p.dummy_child) EXCEPT !.done = TRUE]

\* the lexer has handed out tok: its index stands behind it
Advance(p, tok) == [p EXCEPT !.index = tok.end]

\* one turn of the `while True` loop of parse_iterator on the text s: the next
\* token is taken and its branch run
ParserStep(p, s) ==
  LET tok == NextToken(s, p.index)
      q == Advance(p, tok)
  IN IF tok.type = "END" THEN AtEnd(p, Len(s))
     ELSE IF tok.type = "LexicalError"
       THEN Fail(p, "LexicalError", "Invalid character", tok.start, tok.end)
     ELSE IF tok.type = "LEFT_PAREN" THEN OnLeftParen(q, tok)
     ELSE IF tok.type = "RIGHT_PAREN" THEN OnRightParen(q, tok)
     ELSE IF tok.type = "SEMICOLON" THEN OnSemicolon(q, tok)
     ELSE IF tok.type = "TAG" THEN OnTag(q, tok)
     ELSE IF tok.type \in {"VALUE", "EMPTY_VALUE"} THEN OnValue(q, tok)
     ELSE q

\* SGFParser.parse(s): the loop run to its end
RECURSIVE ParseFrom(_, _)
ParseFrom(p, s) == IF p.done THEN p ELSE ParseFrom(ParserStep(p, s), s)

Parse(s) == ParseFrom(ParserStart, s)

\* ------------------------------------------------------- the records ----
\* the children of node n in the tree pv (a parent vector), in textual order
KidsOf(pv, n) == Ascending({j \in DOMAIN pv : pv[j] = n})

\* the record format: a node is ";" and its properties; an only child goes on
\* in the same Sequence unless `grouped`, several children each open a SubTree
RECURSIVE WriteNode(_, _, _, _)
RECURSIVE WriteGroups(_, _, _, _)
WriteNode(pv, pr, grouped, n) ==
  LET kids == KidsOf(pv, n)
  IN << ";" >> \o pr \o
     (IF kids = << >> THEN << >>
      ELSE IF Len(kids) = 1 /\ ~grouped THEN WriteNode(pv, pr, grouped, kids[1])
      ELSE WriteGroups(pv, pr, grouped, kids))

WriteGroups(pv, pr, grouped, kids) ==
  IF kids = << >> THEN << >>
  ELSE << "(" >> \o WriteNode(pv, pr, grouped, Head(kids)) \o << ")" >>
       \o WriteGroups(pv, pr, grouped, Tail(kids))

Write(pv, pr, grouped) == << "(" >> \o WriteNode(pv, pr, grouped, 1) \o << ")" >>

\* the property runs the nodes of a record are written with: B[a], B[a][],
\* B[\]] (an escaped "]"), B[\\] (an escaped backslash) and no property at all
PlainProps == << "B", "[", "a", "]" >>
PropTexts ==
  { << >>, PlainProps, << "B", "[", "a", "]", "[", "]" >>,
    << "B", "[", "\\", "]", "]" >>, << "B", "[", "\\", "\\", "]" >> }

TreeShapes == UNION {Shapes(k) : k \in 1..MaxTreeNodes}

\* the records of the grammar Tree := "(" Sequence SubTree* ")"
TreeTexts == {Write(pv, pr, g) : pv \in TreeShapes, pr \in PropTexts, g \in BOOLEAN}

PlainTexts == {Write(pv, PlainProps, FALSE) : pv \in TreeShapes}

\* what a text is made of, token by token
Pieces == { << "(" >>, << ")" >>, << ";" >>, << "B" >>, << "[", "a", "]" >>, << " " >> }

\* no plain record is longer: ";B[a]" and at most one pair of parentheses for
\* each node
MaxText == 7 * MaxTreeNodes

\* a plain record with one more piece put in somewhere, a plain record cut
\* short, and two plain records one after the other
Inserted ==
  {SubSeq(x, 1, at) \o q \o SubSeq(x, at + 1, Len(x)) :
     << x, at >> \in {<< y, k >> \in PlainTexts \X (0..MaxText) : k <= Len(y)},
     q \in Pieces}
Prefixes ==
  {SubSeq(x, 1, k) :
     << x, k >> \in {<< y, j >> \in PlainTexts \X (0..MaxText) : j <= Len(y)}}
Doubled == {x \o y : x \in PlainTexts, y \in PlainTexts}

\* records whose nodes name the key B twice: ;B[a]B[]
Repeated ==
  {Write(pv, << "B", "[", "a", "]", "B", "[", "]" >>, FALSE) : pv \in TreeShapes}

\* the texts handed to SGFParser.parse
Inputs == TreeTexts \cup Inserted \cup Prefixes \cup Doubled \cup Repeated

\* ------------------------------------------------- the serializer ----
\* a value as it is written into a record: "]" and "\" get a backslash in front
RECURSIVE Escape(_)
Escape(v) ==
  IF v = << >> THEN << >>
  ELSE (IF Head(v) \in {"]", "\\"} THEN << "\\", Head(v) >> ELSE << Head(v) >>)
       \o Escape(Tail(v))

RECURSIVE ValuesToSgf(_)
ValuesToSgf(values) ==
  IF values = << >> THEN << >>
  ELSE << "[" >> \o Escape(Head(values)) \o << "]" >> \o ValuesToSgf(Tail(values))

\* the properties pr of a node, KEY[value][value]... for each key in order
RECURSIVE PropsToSgf(_)
PropsToSgf(pr) ==
  IF pr = << >> THEN << >>
  ELSE Head(pr)[1] \o ValuesToSgf(Head(pr)[2]) \o PropsToSgf(Tail(pr))

\* the record of the subtree at node n of the parsed tree p: an only child goes
\* on in the Sequence, several children each get a group
RECURSIVE NodeToSgf(_, _)
RECURSIVE GroupsToSgf(_, _)
NodeToSgf(p, n) ==
  LET kids == p.children[n]
  IN << ";" >> \o PropsToSgf(p.props[n]) \o
     (IF kids = << >> THEN << >>
      ELSE IF Len(kids) = 1 THEN NodeToSgf(p, kids[1])
      ELSE GroupsToSgf(p, kids))

GroupsToSgf(p, kids) ==
  IF kids = << >> THEN << >>
  ELSE << "(" >> \o NodeToSgf(p, Head(kids)) \o << ")" >> \o GroupsToSgf(p, Tail(kids))

\* node.to_sgf() on the root of the parsed tree p
ToSgf(p) == << "(" >> \o NodeToSgf(p, p.yielded) \o << ")" >>

\* ------------------------------------------------- run_solver.main ----
\* run_solver.py:63-73: the scan of the children for the largest visit_count,
\* replaced only on a strictly larger one
RECURSIVE ScanBest(_, _, _)
ScanBest(kids, best, max_visits) ==
  IF kids = << >> THEN best
  ELSE IF visit_count[Head(kids)] > max_visits
    THEN ScanBest(Tail(kids), Head(kids), visit_count[Head(kids)])
    ELSE ScanBest(Tail(kids), best, max_visits)

\* run_solver.py:30-78, what main does once solver.solve has returned (an
\* exception out of solve ends main): the root's average score is printed
\* first, a division by root.visit_count
MainReport ==
  /\ pc = "idle"
  /\ call = "solve"
  /\ outcome = "returned"
  /\ call' = "main"
  /\ IF visit_count[root] = 0
       THEN outcome' = "ZeroDivisionError" /\ best_child' = None
       ELSE outcome' = "returned" /\ best_child' = ScanBest(children[root], None, -1)
  /\ UNCHANGED << treeVars, solveVars, parseVars >>

Next ==
  \/ \E k \in 1..MaxLoad : \E pv \in Shapes(k), ks \in [1..k -> Keys] : SetJob(k, pv, ks)
  \/ \E n \in 0..MaxSimulations : SolveCall(n)
  \/ SolveSelect
  \/ SolveReturn
  \/ SolveRevisit
  \/ SolveEvaluate
  \/ SolveEvaluateFails
  \/ SolveExpand
  \/ SolveBackpropagate
  \/ \E n \in Nodes, c \in Comments, ks \in KeySeqs(MaxMoves) : TreeExpand(n, c, ks)
  \/ \E n \in Nodes, st \in BoardState : TreeExpandNoMoves(n, st)
  \/ \E n \in Nodes : TreeBackpropagate(n)
  \/ MainReport

Spec == Init /\ [][Next]_vars

\* ------------------------------------------- parsing a text, step by step ----
\* a turn of the loop of parse_iterator touches the parser's locals only
ParseFrame == UNCHANGED << treeVars, solveVars, call, outcome, best_child, sgf, poolVars, go >>

ParseLeftParen ==
  /\ ~ps.done
  /\ LET tok == NextToken(sgf, ps.index)
     IN tok.type = "LEFT_PAREN" /\ ps' = OnLeftParen(Advance(ps, tok), tok)
  /\ ParseFrame

ParseRightParen ==
  /\ ~ps.done
  /\ LET tok == NextToken(sgf, ps.index)
     IN tok.type = "RIGHT_PAREN" /\ ps' = OnRightParen(Advance(ps, tok), tok)
  /\ ParseFrame

ParseSemicolon ==
  /\ ~ps.done
  /\ LET tok == NextToken(sgf, ps.index)
     IN tok.type = "SEMICOLON" /\ ps' = OnSemicolon(Advance(ps, tok), tok)
  /\ ParseFrame

ParseTag ==
  /\ ~ps.done
  /\ LET tok == NextToken(sgf, ps.index)
     IN tok.type = "TAG" /\ ps' = OnTag(Advance(ps, tok), tok)
  /\ ParseFrame

ParseValue ==
  /\ ~ps.done
  /\ LET tok == NextToken(sgf, ps.index)
     IN tok.type \in {"VALUE", "EMPTY_VALUE"} /\ ps' = OnValue(Advance(ps, tok), tok)
  /\ ParseFrame

\* parser.py:178-179
ParseIgnore ==
  /\ ~ps.done
  /\ LET tok == NextToken(sgf, ps.index)
     IN tok.type = "IGNORE" /\ ps' = Advance(ps, tok)
  /\ ParseFrame

\* lexer.py:66-67
ParseLexicalError ==
  /\ ~ps.done
  /\ LET tok == NextToken(sgf, ps.index)
     IN /\ tok.type = "LexicalError"
        /\ ps' = Fail(ps, "LexicalError", "Invalid character", tok.start, tok.end)
  /\ ParseFrame

ParseEnd ==
  /\ ~ps.done
  /\ NextToken(sgf, ps.index).type = "END"
  /\ ps' = AtEnd(ps, Len(sgf))
  /\ ParseFrame

\* get_player on a parsed node: "B" before "W", and ValueError ("none") on a
\* node that has neither key
PlayerOf(pr) ==
  IF \E k \in 1..Len(pr) : pr[k][1] = << "B" >> THEN "B"
  ELSE IF \E k \in 1..Len(pr) : pr[k][1] = << "W" >> THEN "W"
  ELSE "none"

\* Tree.load_sgf (tree.py:15-17) once parse has returned: the first node is
\* the root and the parsed nodes are the tree's; the parser's locals die
LoadParsed ==
  /\ pc = "idle"
  /\ root = None
  /\ ps.done /\ ps.err = "none" /\ ps.yielded # None
  /\ Len(ps.parent) <= MaxNodes
  /\ LET k == Len(ps.parent)
     IN /\ root' = ps.yielded
        /\ used' = k
        /\ parent' = [n \in Nodes |-> IF n <= k THEN ps.parent[n] ELSE parent[n]]
        /\ children' = [n \in Nodes |-> IF n <= k THEN ps.children[n] ELSE children[n]]
        /\ key' = [n \in Nodes |-> IF n <= k THEN PlayerOf(ps.props[n]) ELSE key[n]]
  /\ call' = "set_job"
  /\ outcome' = "returned"
  /\ sgf' = << >>
  /\ ps' = [ParserStart EXCEPT !.done = TRUE]
  /\ UNCHANGED << status, visit_count, winrate, expanded_win, solveVars, best_child,
                  poolVars, go >>

ParserInit ==
  /\ InitSolver
  /\ sgf \in Inputs
  /\ ps = ParserStart
  /\ PoolIdle

ParserNext ==
  \/ ParseLeftParen
  \/ ParseRightParen
  \/ ParseSemicolon
  \/ ParseTag
  \/ ParseValue
  \/ ParseIgnore
  \/ ParseLexicalError
  \/ ParseEnd
  \/ LoadParsed
  \/ \E n \in Nodes, c \in Comments, ks \in KeySeqs(MaxMoves) : TreeExpand(n, c, ks)
  \/ \E n \in Nodes, st \in BoardState : TreeExpandNoMoves(n, st)

ParserSpec == ParserInit /\ [][ParserNext]_vars

\* ================================================================ claims ====
\* the node itself and its ancestors, by parent references
RECURSIVE PathUp(_)
PathUp(n) == IF n = None THEN {} ELSE {n} \cup PathUp(parent[n])

\* number of plies from n up to its ancestor a
RECURSIVE PliesUp(_, _)
PliesUp(n, a) == IF n = a THEN 0 ELSE 1 + PliesUp(parent[n], a)

Kids(n) == {children[n][k] : k \in 1..Len(children[n])}

\* WIN(P) and WIN(opponent(P)) for the colour P to move at n: a node storing a
\* Black move has White to move, and the other way round
WinOfMover(n) == IF key[n] = "B" THEN WHITE_WIN ELSE BLACK_WIN
WinOfOpponent(n) == IF key[n] = "B" THEN BLACK_WIN ELSE WHITE_WIN

\* the proof-soundness condition at node n under the statuses st
Sound(st, n) ==
  /\ st[n] = WinOfMover(n) => \E ch \in Kids(n) : st[ch] = WinOfMover(n)
  /\ st[n] = WinOfOpponent(n) => \A ch \in Kids(n) : st[ch] = WinOfOpponent(n)

\* the status the proof rule gives node n from its children's statuses in st
ProofRule(st, n) ==
  IF \E ch \in Kids(n) : st[ch] = WinOfMover(n) THEN WinOfMover(n)
  ELSE IF \A ch \in Kids(n) : st[ch] = WinOfOpponent(n) THEN WinOfOpponent(n)
  ELSE st[n]

\* a step that is a backpropagate call from node n, on its own or inside solve
BackpropagateStep(n) ==
  \/ TreeBackpropagate(n)
  \/ SolveBackpropagate /\ leaf = n
  \/ SolveRevisit /\ leaf = n

\* the score solve hands to backpropagate in the step taken from pc
ScoreHanded ==
  IF pc = "revisit" THEN (IF status[leaf] = BLACK_WIN THEN 10 ELSE -10)
  ELSE result.score

\* ---- C1 -------------------------------------------------------------------
\* C1 (as claimed): in every reachable state every node is proof-sound: with P
\* to move, status WIN(P) needs a child that is WIN(P), and status
\* WIN(opponent(P)) needs every child to be WIN(opponent(P)).
C1_ProofSoundEverywhere == \A n \in 1..used : Sound(status, n)

\* C1 (amended): every node is proof-sound unless expand wrote its status from
\* the result.state of an oracle result.
C1_ProofSoundUnlessExpanded ==
  \A n \in 1..used : n \notin expanded_win => Sound(status, n)

\* backpropagate was called on a tree where expand had resolved a child of a
\* node it had not resolved itself
C1_Witness ==
  /\ call = "backpropagate"
  /\ \E n \in 1..used :
       /\ n \notin expanded_win
       /\ \E ch \in Kids(n) : ch \in expanded_win /\ status[ch] \in Wins

\* ---- C2 -------------------------------------------------------------------
\* C2: a backpropagate call returns, and then every node with children on the
\* path from the node to the root has the status the proof rule gives it from
\* its children's statuses.
C2_BackpropagateRecomputesPath ==
  [][\A n \in Nodes :
       BackpropagateStep(n) =>
         /\ outcome' \in {"none", "returned"}
         /\ \A a \in PathUp(n) : Kids(a) # {} => status'[a] = ProofRule(status', a)]_vars

\* ---- C3 -------------------------------------------------------------------
\* C3: a backpropagate call from node n adds exactly 1 to the visit_count of n
\* and of each of its ancestors and leaves every other visit_count unchanged.
C3_BackpropagateCountsPath ==
  [][\A n \in Nodes :
       BackpropagateStep(n) =>
         visit_count' = [m \in Nodes |->
                           IF m \in PathUp(n) THEN visit_count[m] + 1
                           ELSE visit_count[m]]]_vars

\* ---- C4 -------------------------------------------------------------------
\* C4: backpropagate(node, score) inside solve adds (-1)^k * score to the score
\* sum of the ancestor k plies above node (k = 0 for node itself).
C4_BackpropagateAlternatesScore ==
  [][\A n \in Nodes :
       (SolveBackpropagate \/ SolveRevisit) /\ leaf = n =>
         \A a \in PathUp(n) :
           winrate'[a] = winrate[a]
                         + (IF PliesUp(n, a) % 2 = 0 THEN ScoreHanded ELSE - ScoreHanded)]_vars

\* ---- C5 -------------------------------------------------------------------
\* C5: selection() does not fail on an unvisited child, and wherever a node on
\* the way down has an unvisited child the child it descends into is unvisited.
C5_UnvisitedChildChosen ==
  [][SolveSelect =>
       /\ outcome' # "ZeroDivisionError"
       /\ leaf' # None =>
            \A a \in PathUp(leaf') \ {leaf'} :
              (\E ch \in Kids(a) : visit_count[ch] = 0) =>
                \E ch \in Kids(a) : ch \in PathUp(leaf') /\ visit_count[ch] = 0]_vars

\* ---- C6 -------------------------------------------------------------------
\* C6: on a loaded tree selection() returns a node, and that node has no
\* children, whatever the statuses of the nodes on the way.
C6_SelectionReturnsLeaf ==
  [][SolveSelect => leaf' # None /\ children[leaf'] = << >>]_vars

\* ---- C7 -------------------------------------------------------------------
\* node's child list after the step is its old list followed by the sibling
\* list of m, and each adopted node points back to node and is fresh
Adopted(node, m) ==
  /\ children'[node] = children[node] \o << m >>
  /\ parent'[m] = node
  /\ visit_count'[m] = 0
  /\ winrate'[m] = 0
  /\ status'[m] = UNKNOWN

\* a step that is tree.expand(n, result) with the result of an oracle output,
\* whose moves are the nodes the step allocates
TreeExpandStep(n) ==
  /\ pc = "idle" /\ call' = "expand" /\ used' > used
  /\ \E c \in Comments : TreeExpand(n, c, [k \in 1..(used' - used) |-> key'[used + k]])

\* C7: after expand(node, result) with moves present the nodes of the sibling
\* list at result.moves are children of node, with parent node, visit_count 0,
\* score sum 0 and status UNKNOWN, after node's earlier children in their order.
C7_ExpandAdoptsMoves ==
  [][/\ SolveExpand /\ result.moves # None => Adopted(leaf, result.moves)
     /\ \A n \in Nodes : TreeExpandStep(n) => Adopted(n, used + 1)]_vars

\* expand has adopted a node behind an earlier child
C7_Witness ==
  /\ call = "expand"
  /\ \E n \in 1..used :
       /\ Len(children[n]) >= 2
       /\ \A k \in 1..Len(children[n]) : parent[children[n][k]] = n

\* ---- C8 -------------------------------------------------------------------
\* the statuses and statistics after expand(node, res)
StatusFrame(node, st) ==
  /\ status'[node] = (IF st \in Wins THEN st ELSE status[node])
  /\ \A m \in Nodes \ {node} :
       status'[m] = status[m] /\ visit_count'[m] = visit_count[m] /\ winrate'[m] = winrate[m]

\* C8: expand(node, result) sets node.status to result.state when that is a
\* win, leaves it when it is UNKNOWN, and changes the status, visit_count and
\* score sum of no other node.
C8_ExpandStatusFrame ==
  [][/\ SolveExpand => StatusFrame(leaf, result.state)
     /\ pc = "idle" /\ call' = "expand" =>
          \A n \in Nodes :
            /\ \A c \in Comments :
                 (/\ used' > used
                  /\ TreeExpand(n, c, [k \in 1..(used' - used) |-> key'[used + k]])) =>
                   StatusFrame(n, ParseResult(c, used + 1).state)
            /\ \A st \in BoardState : TreeExpandNoMoves(n, st) => StatusFrame(n, st)]_vars

\* expand has resolved one node and left another one unresolved
C8_Witness ==
  /\ call = "expand"
  /\ \E n, m \in 1..used : status[n] = BLACK_WIN /\ status[m] = UNKNOWN /\ n \in expanded_win

C10_SolveReturnsNormally ==
  [][/\ i' <= simulations'
     /\ evals' <= 2
     /\ (pc # "idle" /\ pc' = "idle" /\ outcome' # "OracleError") =>
          /\ outcome' = "returned"
          /\ status'[root] \in Wins \/ i = simulations]_vars

\* ---- C11 ------------------------------------------------------------------
\* the tree's shape and every node's statistics after the step are those of
\* the snapshot b
TreeAsBegun(b) ==
  /\ \A n \in 1..b.used :
       /\ parent'[n] = b.parent[n]
       /\ children'[n] = b.children[n]
       /\ status'[n] = b.status[n]
       /\ visit_count'[n] = b.visit_count[n]
       /\ winrate'[n] = b.winrate[n]
  /\ root' = root

\* C11: when a step of an iteration of solve fails, the tree's shape and every
\* node's visit_count, score sum and status are what they were when that
\* iteration began.
C11_FailedIterationLeavesTree ==
  [][(pc # "idle" /\ pc' = "idle" /\ outcome' # "returned") => TreeAsBegun(begun)]_vars

\* ---- C12 ------------------------------------------------------------------
\* C12: solve without a loaded tree fails with the invalid-state error before
\* any selection or evaluation, and the tree stays as it was, root absent.
C12_SolveWithoutJobFails ==
  [][\A n \in 0..MaxSimulations :
       SolveCall(n) /\ root = None =>
         /\ outcome' = "ValueError: No job set"
         /\ pc' = "idle" /\ evals' = 0 /\ leaf' = None
         /\ root' = None
         /\ UNCHANGED treeVars]_vars

\* solve was called on a solver without a job and has failed
C12_Witness ==
  /\ call = "solve"
  /\ outcome = "ValueError: No job set"
  /\ root = None

\* ---- C13 ------------------------------------------------------------------
\* the child of node with the largest visit_count, the earliest in child
\* order among equals
LargestVisitCount(node) ==
  LET kids == children[node]
      k == CHOOSE k \in 1..Len(kids) :
             /\ \A j \in 1..Len(kids) : visit_count[kids[j]] <= visit_count[kids[k]]
             /\ \A j \in 1..(k - 1) : visit_count[kids[j]] < visit_count[kids[k]]
  IN kids[k]

\* C13: main reports as recommended move the child of the root with the largest
\* visit_count, the earliest in child order among equals.
C13_RecommendsMostVisited ==
  [][MainReport /\ children[root] # << >> =>
       outcome' = "returned" /\ best_child' = LargestVisitCount(root)]_vars

\* ---- the token stream of a text, for C15 to C19 ----------------------------
\* the tokens of s from offset idx on, without the IGNORE ones, up to the end of
\* the text or to the character no rule matches
RECURSIVE TokensFrom(_, _)
TokensFrom(s, idx) ==
  LET tok == NextToken(s, idx)
  IN IF tok.type \in {"END", "LexicalError"} THEN << >>
     ELSE IF tok.type = "IGNORE" THEN TokensFrom(s, tok.end)
     ELSE << tok >> \o TokensFrom(s, tok.end)

Tokens(s) == TokensFrom(s, 0)

\* the tokens the parser has taken so far
Taken(toks, idx) == SelectSeq(toks, LAMBDA t : t.end <= idx)

\* OPEN_GROUP tokens less CLOSE_GROUP tokens among the first k tokens
DepthAfter(toks, k) ==
  Cardinality({j \in 1..k : toks[j].type = "LEFT_PAREN"})
    - Cardinality({j \in 1..k : toks[j].type = "RIGHT_PAREN"})

\* a step of the parser that takes the token tok
TakesToken(tok) ==
  /\ ~ps.done
  /\ ps' # ps
  /\ tok = NextToken(sgf, ps.index)

\* the step ends the parse with a syntax error at the token tok
SyntaxErrorAt(tok) ==
  /\ ps'.done
  /\ ps'.err = "SGFError"
  /\ ps'.err_start = tok.start
  /\ ps'.err_end = tok.end

\* ---- C14 ------------------------------------------------------------------
\* parent references lead from node a to node r in at most `steps` steps
RECURSIVE Climbs(_, _, _, _)
Climbs(par, a, r, steps) ==
  IF a = r THEN TRUE
  ELSE IF steps = 0 \/ a = None THEN FALSE
  ELSE Climbs(par, par[a], r, steps - 1)

\* in the n nodes with parent references par and child lists kid: a child points
\* back to the node listing it, no node is listed twice, and parent references
\* lead from every node to r
Linked(par, kid, n, r) ==
  /\ \A a \in 1..n : \A k \in 1..Len(kid[a]) : par[kid[a][k]] = a
  /\ \A a, b \in 1..n : \A k \in 1..Len(kid[a]), j \in 1..Len(kid[b]) :
       kid[a][k] = kid[b][j] => a = b /\ k = j
  /\ \A a \in 1..n : Climbs(par, a, r, n - 1)

\* C14: while a record is parsed and after any expand calls on the loaded tree,
\* every child's parent reference points to the node that lists it, no node is
\* listed as a child twice, and parent references lead from every node to the
\* root.
C14_SingleParentAcyclic ==
  /\ ps.err = "none" => Linked(ps.parent, ps.children, Len(ps.parent), 1)
  /\ root # None => Linked(parent, children, used, root)

\* a parsed tree that expand has grown by a node below a node with a child
C14_Witness ==
  /\ call = "expand"
  /\ used = MaxNodes
  /\ \E n \in 1..used : Len(children[n]) >= 2

\* ---- C15 ------------------------------------------------------------------
\* the type of the last token taken before offset idx, "NONE" at the start
LastType(s, idx) ==
  LET taken == Taken(Tokens(s), idx)
  IN IF taken = << >> THEN "NONE" ELSE taken[Len(taken)].type

Categories == {"LEFT_PAREN", "RIGHT_PAREN", "SEMICOLON", "TAG", "VALUE", "EMPTY_VALUE"}

\* the categories legal after a token of type t, where the claim names them
LegalAfter(t) ==
  IF t = "NONE" THEN {"LEFT_PAREN"}
  ELSE IF t = "LEFT_PAREN" THEN {"SEMICOLON"}
  ELSE IF t = "TAG" THEN {"VALUE", "EMPTY_VALUE"}
  ELSE IF t = "RIGHT_PAREN" THEN {"LEFT_PAREN", "RIGHT_PAREN"}
  ELSE Categories

\* C15: a token whose category is not legal after the token before it (at the
\* start only OPEN_GROUP, after OPEN_GROUP only NODE_START, after PROPERTY_KEY
\* only PROPERTY_VALUE, after CLOSE_GROUP only OPEN_GROUP or CLOSE_GROUP) ends
\* the parse at once with a syntax error carrying the token's offsets; nothing
\* is taken after it and no node is allocated for it.
C15_IllegalTokenFailsAtOnce ==
  [][\A t \in Categories :
       LET tok == NextToken(sgf, ps.index)
       IN (TakesToken(tok) /\ tok.type = t /\ t \notin LegalAfter(LastType(sgf, ps.index))) =>
            /\ SyntaxErrorAt(tok)
            /\ ps'.index = tok.end
            /\ ps'.parent = ps.parent
            /\ ps'.children = ps.children]_vars

\* a NODE_START right behind a CLOSE_GROUP has ended the parse
C15_Witness ==
  /\ ps.done
  /\ ps.err = "SGFError"
  /\ ps.err_msg = "Unexpected semicolon"
  /\ LastType(sgf, ps.err_start) = "RIGHT_PAREN"

\* ---- C16 ------------------------------------------------------------------
\* records of the grammar whose values are plain: nodes without properties,
\* with B[a] and with B[a][]
GrammarTexts ==
  {Write(pv, pr, g) : pv \in TreeShapes,
                      pr \in {<< >>, PlainProps, << "B", "[", "a", "]", "[", "]" >>},
                      g \in BOOLEAN}

\* C16: the parser accepts every token sequence of the grammar Tree := "("
\* Sequence SubTree* ")", Sequence := Node+, Node := ";" Property*, Property :=
\* KEY Value+, a Node without properties included.
C16_GrammarAccepted ==
  (ps.done /\ sgf \in GrammarTexts) => ps.err = "none"

\* ---- C17 ------------------------------------------------------------------
\* the offsets of the OPEN_GROUP tokens of toks that no CLOSE_GROUP matches
UnmatchedOpens(toks) ==
  {<< toks[k].start, toks[k].end >> :
     k \in {j \in 1..Len(toks) :
              /\ toks[j].type = "LEFT_PAREN"
              /\ \A m \in j..Len(toks) : DepthAfter(toks, m) >= DepthAfter(toks, j)}}

\* C17: a CLOSE_GROUP token with no OPEN_GROUP open ends the parse with a
\* syntax error carrying that token's offsets, and the end of the text with an
\* OPEN_GROUP still open ends it with a syntax error carrying the offsets of an
\* unmatched OPEN_GROUP token.
C17_UnmatchedBoundaryFails ==
  [][LET tok == NextToken(sgf, ps.index)
         taken == Taken(Tokens(sgf), ps.index)
     IN TakesToken(tok) =>
          /\ (tok.type = "RIGHT_PAREN" /\ DepthAfter(taken, Len(taken)) = 0) =>
               SyntaxErrorAt(tok)
          /\ (tok.type = "END" /\ DepthAfter(taken, Len(taken)) > 0) =>
               /\ ps'.done
               /\ ps'.err = "SGFError"
               /\ << ps'.err_start, ps'.err_end >> \in UnmatchedOpens(taken)]_vars

\* the text has ended inside a SubTree: the OPEN_GROUP reported is not the first
C17_Witness ==
  /\ ps.done
  /\ ps.err = "SGFError"
  /\ ps.err_msg = "Unmatched left parentheses"
  /\ ps.err_start > 0
  /\ ps.index = Len(sgf)

\* ---- C18 ------------------------------------------------------------------
\* the number of groups of toks that are opened outside every other group
TopLevelGroups(toks) ==
  Cardinality({k \in 1..Len(toks) :
                 toks[k].type = "LEFT_PAREN" /\ DepthAfter(toks, k - 1) = 0})

\* C18: a text with two or more top-level groups is not parsed to a tree: the
\* parse fails, at the latest when a second node is to become a child of the
\* dummy root, which never holds more than the one child.
C18_SecondTopLevelGroupRejected ==
  /\ (ps.done /\ TopLevelGroups(Tokens(sgf)) >= 2) => ps.err # "none"
  /\ ps.err = "RuntimeError" =>
       /\ ps.dummy_child # None
       /\ ps.dummy_child # ps.current
       /\ ps.parent[ps.current] = None

\* the node of a second top-level group was refused by the dummy root
C18_Witness ==
  /\ ps.done
  /\ ps.err = "RuntimeError"
  /\ TopLevelGroups(Tokens(sgf)) = 2

\* ---- C19 ------------------------------------------------------------------
\* the positions of the NODE_START tokens in toks, in textual order
NodeStarts(toks) == Ascending({k \in 1..Len(toks) : toks[k].type = "SEMICOLON"})

\* the parent the record gives the node that starts at token k: the first node
\* of a group hangs below the last node before it one level further out, any
\* other node below the node before it; 0 stands for no such node
ParentStart(toks, k) ==
  LET earlier == {j \in 1..(k - 1) :
                    /\ toks[j].type = "SEMICOLON"
                    /\ (toks[k - 1].type = "LEFT_PAREN" =>
                          DepthAfter(toks, j) = DepthAfter(toks, k) - 1)}
  IN IF earlier = {} THEN 0 ELSE CHOOSE j \in earlier : \A m \in earlier : m <= j

\* the parent references the record toks describes, node by node
ExpectedParents(toks) ==
  LET starts == NodeStarts(toks)
  IN [n \in 1..Len(starts) |->
        LET q == ParentStart(toks, starts[n])
        IN IF q = 0 THEN None ELSE CHOOSE m \in 1..Len(starts) : starts[m] = q]

\* C19: in an accepted record the nodes of a Sequence form a parent-to-child
\* chain in textual order, the first node of each SubTree is a child of the last
\* node of the enclosing Sequence, and children stand in textual order.
C19_SequencesChainSubTreesBranch ==
  (ps.done /\ ps.err = "none") =>
    LET expected == ExpectedParents(Tokens(sgf))
    IN /\ ps.parent = expected
       /\ ps.children = [n \in 1..Len(expected) |->
                           Ascending({m \in 1..Len(expected) : expected[m] = n})]
       /\ (expected # << >> => ps.yielded = 1)

\* a record of a two-node Sequence followed by two SubTrees has been parsed
C19_Witness ==
  /\ ps.done
  /\ ps.err = "none"
  /\ ps.parent = << None, 1, 2, 2 >>
  /\ ps.children = << << 2 >>, << 3, 4 >>, << >>, << >> >>

\* ---- C20 ------------------------------------------------------------------
\* the records of the grammar whose nodes all carry a property
WellFormedTexts ==
  {Write(pv, pr, g) : pv \in TreeShapes, pr \in PropTexts \ {<< >>}, g \in BOOLEAN}

\* C20: a well-formed record is parsed, and the serialized tree is parsed again
\* to a tree of the same shape with the same keys and values at every node,
\* escaped "]" and escaped backslashes in values included.
C20_RoundTrip ==
  (ps.done /\ sgf \in WellFormedTexts) =>
    /\ ps.err = "none"
    /\ LET again == Parse(ToSgf(ps))
       IN /\ again.err = "none"
          /\ again.parent = ps.parent
          /\ again.children = ps.children
          /\ again.props = ps.props

\* ---- C21 ------------------------------------------------------------------
\* SGFLexerManual._next_token behind a "[" at offset idx, with its escape flag:
\* the offset just behind the first "]" that no backslash escapes, 0 when the
\* text ends first ("Unexpected end of file")
RECURSIVE ManualScan(_, _, _)
ManualScan(s, at, escape) ==
  IF at >= Len(s) THEN 0
  ELSE LET c == s[at + 1]
       IN IF c = "]" /\ ~escape THEN at + 1
          ELSE IF c = "\\" /\ ~escape THEN ManualScan(s, at + 1, TRUE)
          ELSE ManualScan(s, at + 1, FALSE)

ManualValueEnd(s, idx) == ManualScan(s, idx + 1, FALSE)

\* C21: wherever the lexer stands on a "[" whose value is closed, the token it
\* returns is a value that ends at the first "]" that is not escaped: behind an
\* escaping backslash the "]" does not end it, behind an escaped backslash it
\* does, and "[]" is an empty value.
C21_ValueEndsAtFirstUnescapedBracket ==
  (~ps.done /\ ps.index < Len(sgf) /\ sgf[ps.index + 1] = "["
     /\ ManualValueEnd(sgf, ps.index) # 0) =>
    LET tok == NextToken(sgf, ps.index)
    IN /\ tok.type \in {"VALUE", "EMPTY_VALUE"}
       /\ tok.end = ManualValueEnd(sgf, ps.index)

\* ---- C22 ------------------------------------------------------------------
\* the characters a token can start with: the three punctuation marks, a word
\* character, the "[" of a value and white space
StartsToken(c) == c \in {"(", ")", ";", "["} \cup WordChars \cup SpaceChars

\* every character of s from offset idx on belongs to a token, a value being
\* closed by its first "]" that is not escaped (SGFLexerManual._next_token run
\* to the end of the text without a raise)
RECURSIVE AllTokens(_, _)
AllTokens(s, idx) ==
  IF idx >= Len(s) THEN TRUE
  ELSE LET c == s[idx + 1]
       IN IF c \in {"(", ")", ";"} THEN AllTokens(s, idx + 1)
          ELSE IF c = "["
            THEN ManualValueEnd(s, idx) # 0 /\ AllTokens(s, ManualValueEnd(s, idx))
          ELSE IF c \in WordChars THEN AllTokens(s, RunEnd(s, idx, WordChars))
          ELSE IF c \in SpaceChars THEN AllTokens(s, RunEnd(s, idx, SpaceChars))
          ELSE FALSE

\* C22: a call of next_token on a character that starts no token fails with a
\* LexicalError that starts at the current offset and leaves the offset where it
\* was; a call with nothing but tokens ahead does not fail.
C22_LexicalErrorOnlyAtBadCharacter ==
  [][(~ps.done /\ ps.index < Len(sgf) /\ sgf' = sgf) =>
       /\ ~StartsToken(sgf[ps.index + 1]) =>
            /\ ps'.err = "LexicalError"
            /\ ps'.err_start = ps.index
            /\ ps'.index = ps.index
       /\ AllTokens(sgf, ps.index) => ps'.err # "LexicalError"]_vars

\* ---- C23 ------------------------------------------------------------------
\* the exception of get_player, in the place of the string that is not built
Raised == << "ValueError" >>

\* node[tag] on the ordered mapping pr
ValuesUnder(pr, tag) == pr[CHOOSE k \in 1..Len(pr) : pr[k][1] = << tag >>][2]

\* node_to_move_string on a parsed node with the properties pr
NodeToMoveString(pr) ==
  LET player == PlayerOf(pr)
  IN IF player = "none" THEN Raised
     ELSE << player, "[" >> \o ValuesUnder(pr, player)[1] \o << "]" >>

\* the nodes from the root down to n (the list of node_to_job after reverse)
RECURSIVE JobNodes(_, _)
JobNodes(p, n) == IF n = None THEN << >> ELSE Append(JobNodes(p, p.parent[n]), n)

\* ";".join(parts)
RECURSIVE Join(_)
Join(parts) ==
  IF parts = << >> THEN << >>
  ELSE IF Len(parts) = 1 THEN parts[1]
  ELSE parts[1] \o << ";" >> \o Join(Tail(parts))

\* node_to_job on node n of the parsed tree p
NodeToJob(p, n) ==
  LET nodes == JobNodes(p, n)
      parts == [k \in 1..Len(nodes) |-> NodeToMoveString(p.props[nodes[k]])]
  IN IF \E k \in 1..Len(parts) : parts[k] = Raised THEN Raised
     ELSE << ";" >> \o Join(parts)

\* the sequences of parts one after the other
RECURSIVE Flatten(_)
Flatten(parts) == IF parts = << >> THEN << >> ELSE Head(parts) \o Flatten(Tail(parts))

\* C23: for every node of a tree that was loaded, roots without a colour key
\* included, the job string is built, and it is ";" and then one move token for
\* each node from the root down to the node, joined by ";", each token the
\* node's colour key with the first value under it in brackets.
C23_JobIsPathOfMoveTokens ==
  (ps.done /\ ps.err = "none" /\ ps.yielded # None) =>
    \A n \in 1..Len(ps.parent) :
      LET nodes == JobNodes(ps, n)
          job == NodeToJob(ps, n)
      IN /\ job # Raised
         /\ Len(nodes) = Cardinality({m \in 1..Len(ps.parent) :
                                          Climbs(ps.parent, n, m, Len(ps.parent))})
         /\ nodes[1] = ps.yielded
         /\ job = Flatten([k \in 1..Len(nodes) |->
                     LET pr == ps.props[nodes[k]]
                         colour == IF \E j \in 1..Len(pr) : pr[j][1] = << "B" >>
                                     THEN "B" ELSE "W"
                     IN << ";", colour, "[" >> \o ValuesUnder(pr, colour)[1] \o << "]" >>])

\* ---- C24 ------------------------------------------------------------------
\* C24: when the first comment of the oracle's output is no token of the
\* vocabulary, the evaluation fails: solve is left with an error, no result is
\* kept, and neither expand nor backpropagate follows.
C24_UnknownCommentIsProtocolError ==
  [][\A c \in Comments \ DOMAIN MAPPING, ks \in KeySeqs(MaxMoves) :
       SolveEvaluateOn(c, ks) =>
         /\ pc' = "idle"
         /\ outcome' \notin {"none", "returned"}
         /\ result' = NoResult]_vars

\* ---- C25 ------------------------------------------------------------------
\* C25: an iteration of solve whose selected leaf is already BLACK_WIN or
\* WHITE_WIN asks the oracle nothing and adds no node; it backpropagates from the
\* leaf the score +1 for BLACK_WIN or -1 for WHITE_WIN and goes on to the next
\* iteration.
C25_RevisitOnlyBackpropagates ==
  [][(pc = "revisit" /\ status[leaf] \in Wins) =>
       /\ evals' = 0
       /\ used' = used /\ parent' = parent /\ children' = children
       /\ pc' = "loop" /\ i' = i + 1 /\ outcome' = "none"
       /\ winrate'[leaf] = winrate[leaf] + (IF status[leaf] = BLACK_WIN THEN 10 ELSE -10)]_vars

\* ---- C26 ------------------------------------------------------------------
\* C26: in an iteration of solve on an unresolved leaf, the evaluation of the
\* leaf is followed by expand(leaf, result) and backpropagate(leaf, score), both
\* completed, before anything is asked about leaf.parent: the step that
\* evaluates the leaf goes on to expand without a request for the parent, and
\* the backpropagation from the leaf that follows expand comes to its end.
C26_LeafFinishedBeforeParent ==
  [][/\ (pc = "evaluate" /\ ~SolveEvaluateFails) =>
          pc' = "expand" /\ outcome' = "none"
     /\ pc = "expand" => pc' = "backprop" /\ outcome' = "none"
     /\ pc = "backprop" =>
          /\ outcome' \in {"none", "returned"}
          /\ pc' \in {"loop", "idle"}]_vars

\* ---- C27 ------------------------------------------------------------------
\* self.tree.collect_child_moves(par): neither Tree nor MCTS has the method, the
\* attribute lookup raises AttributeError
CollectChildMoves(p, par) == [err |-> "AttributeError", nodes |-> << >>]

\* solver.py:49-51 for the node par of the tree p: the exclusion list
IgnoreStr(p, par) ==
  LET got == CollectChildMoves(p, par)
  IN IF got.err # "none" THEN [err |-> got.err, text |-> << >>]
     ELSE [err |-> "none",
           text |-> << ";" >> \o Join([k \in 1..Len(got.nodes) |->
                                        NodeToMoveString(p.props[got.nodes[k]])])]

\* C27: for every node of a loaded tree that has children the exclusion list is
\* built, and it is ";" and then the move token of each child, once each, in
\* child order, joined by ";".
C27_ExclusionListNamesEveryChild ==
  (ps.done /\ ps.err = "none" /\ ps.yielded # None) =>
    \A par \in 1..Len(ps.parent) :
      ps.children[par] # << >> =>
        /\ IgnoreStr(ps, par).err = "none"
        /\ IgnoreStr(ps, par).text =
             << ";" >> \o Join([k \in 1..Len(ps.children[par]) |->
                                 NodeToMoveString(ps.props[ps.children[par][k]])])

\* ---- C28 ------------------------------------------------------------------
\* C28: in the tree the solver works on, the loaded job and the nodes adopted
\* from oracle results, every child of a node that stores a Black move stores a
\* White move and every child of a node that stores a White move stores a Black
\* move.
C28_ColoursAlternate ==
  \A n \in 1..used : \A ch \in Kids(n) :
    /\ key[n] = "B" => key[ch] = "W"
    /\ key[n] = "W" => key[ch] = "B"

\* ---- C29 ------------------------------------------------------------------
\* selection() reads the statistics of the nodes, which SolverNode keeps in two
\* public fields (solver_node.py:9-10).  To judge the descent the solver is
\* started on trees of up to MaxNodes nodes that carry statistics: a visit
\* count of at most MaxVisits for each node, no node visited less often than its
\* children together, and a score sum of between -1 and +1 for each visit.
MaxVisits == 2

RECURSIVE SumVisits(_, _)
SumVisits(vc, kids) ==
  IF kids = << >> THEN 0 ELSE vc[Head(kids)] + SumVisits(vc, Tail(kids))

SelectionInit ==
  /\ \E k \in 1..MaxNodes : \E pv \in Shapes(k) :
       /\ used = k
       /\ parent = [n \in Nodes |-> IF n <= k THEN pv[n] ELSE None]
       /\ children = [n \in Nodes |-> IF n <= k THEN KidsOf(pv, n) ELSE << >>]
  /\ root = 1
  /\ key = [n \in Nodes |-> "B"]
  /\ status = [n \in Nodes |-> UNKNOWN]
  /\ visit_count \in [Nodes -> 0..MaxVisits]
  /\ \A n \in Nodes : n > used => visit_count[n] = 0
  /\ \A n \in Nodes : visit_count[n] >= SumVisits(visit_count, children[n])
  /\ winrate \in [Nodes -> {10 * w : w \in (-MaxVisits)..MaxVisits}]
  /\ \A n \in Nodes : winrate[n] \in (-10 * visit_count[n])..(10 * visit_count[n])
  /\ pc = "idle"
  /\ i = 0
  /\ simulations = 0
  /\ leaf = None
  /\ result = NoResult
  /\ evals = 0
  /\ call = "none"
  /\ outcome = "none"
  /\ expanded_win = {}
  /\ begun = NoSnapshot
  /\ best_child = None
  /\ sgf = << >>
  /\ ps = ParserStart
  /\ PoolIdle

\* a call of solve up to the selection of its first iteration
SelectionNext ==
  \/ \E n \in 0..MaxSimulations : SolveCall(n)
  \/ SolveSelect
  \/ SolveReturn

SelectionSpec == SelectionInit /\ [][SelectionNext]_vars

\* the child of a through which the descent went on to the node n below a
ChildTowards(a, n) == CHOOSE ch \in Kids(a) : ch \in PathUp(n)

\* the place of child ch in the child list of a
PlaceOf(a, ch) == CHOOSE k \in 1..Len(children[a]) : children[a][k] = ch

\* C29: at a node of the descent whose children are all visited, selection()
\* goes on into the child with the largest UCT value, and into the earliest such
\* child in child order when several have it; on a tree whose nodes are all
\* visited the descent does not fail.
C29_DescendsIntoLargestUct ==
  [][SolveSelect =>
       /\ (\A n \in 1..used : visit_count[n] > 0) => leaf' # None
       /\ leaf' # None =>
            \A a \in PathUp(leaf') \ {leaf'} :
              (\A ch \in Kids(a) : visit_count[ch] > 0) =>
                LET np == visit_count[a]
                    to == ChildTowards(a, leaf')
                IN \A ch \in Kids(a) :
                     /\ NowScore(ch, np).val <= NowScore(to, np).val
                     /\ NowScore(ch, np).val = NowScore(to, np).val =>
                          PlaceOf(a, to) <= PlaceOf(a, ch)]_vars

\* selection() has passed by an earlier child for a later one with the larger
\* value, and on another tree has kept the first of two children of one value
C29_Witness ==
  /\ pc \in {"evaluate", "revisit"}
  /\ children[1] = << 2, 3 >>
  /\ visit_count[2] > 0 /\ visit_count[3] > 0
  /\ \/ leaf = 3 /\ NowScore(3, visit_count[1]).val > NowScore(2, visit_count[1]).val
     \/ leaf = 2 /\ NowScore(3, visit_count[1]).val = NowScore(2, visit_count[1]).val

\* ---- C30 ------------------------------------------------------------------
\* the place of the last token of type ty among the first t tokens, 0 if none
LastOfType(toks, t, ty) ==
  IF \E g \in 1..t : toks[g].type = ty
    THEN CHOOSE g \in 1..t : toks[g].type = ty /\ \A h \in (g + 1)..t : toks[h].type # ty
    ELSE 0

ValueTypes == {"VALUE", "EMPTY_VALUE"}

\* how many value tokens follow the token at place g without a break
RECURSIVE ValueRun(_, _)
ValueRun(toks, g) ==
  IF g < Len(toks) /\ toks[g + 1].type \in ValueTypes THEN 1 + ValueRun(toks, g + 1) ELSE 0

\* C30: after a successful parse every value token of the text is one element
\* of the value list stored under the key named by the nearest KEY token before
\* it, on the node opened by the nearest NODE_START before it; the list holds
\* the values of that key in their textual order and nothing else, and "[]" is
\* stored as the empty string.
C30_EveryValueStoredOnce ==
  (ps.done /\ ps.err = "none" /\ ps.yielded # None) =>
    LET toks == Tokens(sgf)
    IN \A t \in 1..Len(toks) :
         toks[t].type \in ValueTypes =>
           LET n == Cardinality({h \in 1..t : toks[h].type = "SEMICOLON"})
               g == LastOfType(toks, t, "TAG")
               pr == ps.props[n]
           IN \E e \in 1..Len(pr) :
                /\ pr[e][1] = toks[g].value
                /\ Len(pr[e][2]) = ValueRun(toks, g)
                /\ pr[e][2][t - g] = SubSeq(toks[t].value, 2, Len(toks[t].value) - 1)
                /\ toks[t].type = "EMPTY_VALUE" => pr[e][2][t - g] = << >>

\* ---- C31 ------------------------------------------------------------------
\* the score of a result lies in [-1, +1] (in tenths) and its state says win for
\* Black exactly at +1, win for White exactly at -1
Consistent(res) ==
  /\ res.score \in -10..10
  /\ res.state = BLACK_WIN <=> res.score = 10
  /\ res.state = WHITE_WIN <=> res.score = -10
  /\ res.state \in BoardState

\* C31: the result that solve hands to expand and to backpropagate has a score
\* in [-1, +1] and a state in keeping with it, BLACK_WIN exactly for the comment
\* B:w and WHITE_WIN exactly for W:w, whether it was parsed from an oracle
\* output or made up for a resolved leaf.
C31_ResultStateMatchesScore ==
  /\ pc \in {"expand", "backprop"} => Consistent(result)
  /\ pc = "revisit" => Consistent(RevisitResult(status[leaf]))
  /\ pc = "evaluate" =>
       \A c \in Comments :
         LET r == ParseResult(c, used + 1)
         IN /\ Consistent(r)
            /\ r.state = BLACK_WIN <=> c = "B:w"
            /\ r.state = WHITE_WIN <=> c = "W:w"

\* a result parsed from an output with the comment B:w has been handed to expand
\* and is about to be handed to backpropagate
C31_Witness ==
  /\ pc = "backprop"
  /\ result.score = 10
  /\ result.state = BLACK_WIN
  /\ status[leaf] = BLACK_WIN

\* ---- C32 ------------------------------------------------------------------
\* node n belongs to the tree: parent references par lead from it to the root
InTree(par, n) == root # None /\ Climbs(par, n, root, MaxNodes)

\* C32: no step of solve removes a node of the tree or gives it another parent,
\* and every node's child list after the step begins with its child list before
\* the step: child counts do not decrease and the children there keep their
\* order.
C32_TreeOnlyGrows ==
  [][(pc # "idle" \/ pc' # "idle") =>
       \A n \in 1..used :
         InTree(parent, n) =>
           /\ root' = root
           /\ InTree(parent', n)
           /\ parent'[n] = parent[n]
           /\ Len(children'[n]) >= Len(children[n])
           /\ SubSeq(children'[n], 1, Len(children[n])) = children[n]]_vars

\* solve has expanded its leaf: the root has got children it did not have when
\* the iteration began
C32_Witness ==
  /\ pc = "backprop"
  /\ root # None
  /\ Len(children[root]) > Len(begun.children[root])

\* ---- C33 ------------------------------------------------------------------
\* C33: the step of solve that is the call of selection() changes no node's
\* visit_count, score sum or status and no parent or child link; and a step
\* that changes a visit_count, a score sum or a status is a call of expand or of
\* backpropagate.
C33_SelectionReadsOnly ==
  [][/\ pc = "loop" =>
          /\ visit_count' = visit_count /\ winrate' = winrate /\ status' = status
          /\ parent' = parent /\ children' = children
          /\ root' = root /\ used' = used
     /\ (visit_count' # visit_count \/ winrate' # winrate \/ status' # status) =>
          \/ pc \in {"expand", "backprop", "revisit"}
          \/ pc = "idle" /\ call' \in {"expand", "backpropagate"}]_vars

\* selection() has returned the root of a tree on which an earlier expand has
\* written a status
C33_Witness ==
  /\ pc = "revisit"
  /\ leaf = root
  /\ status[leaf] \in Wins

\* ---- C34 ------------------------------------------------------------------
\* C34: a node whose status is BLACK_WIN or WHITE_WIN keeps that status through
\* every later call of expand and of backpropagate.
C34_ResolvedStatusIsFinal ==
  [][\A n \in 1..used : status[n] \in Wins => status'[n] = status[n]]_vars

\* ---- C35 ------------------------------------------------------------------
\* C35: while a text is parsed, the properties of a node that has been yielded
\* do not change any more; and when the record is accepted the nodes yielded are
\* all the nodes of the tree, each once, in the order of their NODE_START
\* tokens (the order the nodes are numbered in), so that the node parse returns
\* is the first node of the top-level group.
C35_YieldsEveryNodeOnceInOrder ==
  [][(sgf' = sgf /\ ~ps.done) =>
       /\ \A k \in 1..Len(ps.yields) :
            ps'.props[ps.yields[k]] = ps.props[ps.yields[k]]
       /\ (ps'.done /\ ps'.err = "none") =>
            /\ ps'.yields = [k \in 1..Len(ps'.parent) |-> k]
            /\ ps'.yielded = ps'.yields[1]
            /\ ps'.yielded = ps'.dummy_child
            /\ \A k \in 1..Len(ps'.props) : ps'.props[k] # << >>]_vars

\* a record of four nodes with a branch has been accepted: the last node was
\* yielded at its ")" and two more ")" followed that yielded nothing
C35_Witness ==
  /\ ps.done
  /\ ps.err = "none"
  /\ ps.parent = << None, 1, 2, 2 >>
  /\ ps.yields = << 1, 2, 3, 4 >>

\* ---- C36 ------------------------------------------------------------------
\* C36: no node's parent reference ever points to the dummy root; and when
\* parse has returned, the node returned has no parent and the parent
\* references lead from every node of the tree to it, so a walk along them, as
\* backpropagate and node_to_job make it, ends there.
C36_DummyRootUnreachable ==
  /\ \A n \in 1..Len(ps.parent) : ps.parent[n] # Dummy
  /\ (ps.done /\ ps.err = "none" /\ sgf # << >>) =>
       /\ ps.yielded \in 1..Len(ps.parent)
       /\ ps.parent[ps.yielded] = None
       /\ \A n \in 1..Len(ps.parent) :
            /\ Climbs(ps.parent, n, ps.yielded, Len(ps.parent))
            /\ JobNodes(ps, n)[1] = ps.yielded
            /\ \A k \in 1..Len(JobNodes(ps, n)) : JobNodes(ps, n)[k] # Dummy

\* parse has returned a tree of three nodes in a row: the walk from the last
\* node passes two parent references and ends at the node returned
C36_Witness ==
  /\ ps.done
  /\ ps.err = "none"
  /\ ps.yielded = 1
  /\ ps.dummy_child = 1
  /\ Len(ps.parent) = 3
  /\ JobNodes(ps, 3) = << 1, 2, 3 >>

\* ---- C37 ------------------------------------------------------------------
\* the parser as it stood when its lexer had come to offset idx of the text s
RECURSIVE StateAt(_, _, _)
StateAt(p, s, idx) ==
  IF p.done \/ p.index >= idx THEN p ELSE StateAt(ParserStep(p, s), s, idx)

\* the place in toks of the OPEN_GROUP token that the CLOSE_GROUP token at
\* place t closes
MatchingOpen(toks, t) ==
  CHOOSE g \in 1..(t - 1) :
    /\ toks[g].type = "LEFT_PAREN"
    /\ DepthAfter(toks, g - 1) = DepthAfter(toks, t)
    /\ \A m \in g..(t - 1) : DepthAfter(toks, m) > DepthAfter(toks, t)

\* the place of the topmost "(" token in the stack, 0 if it holds none
TopParen(stack) ==
  IF \E k \in 1..Len(stack) : stack[k].paren
    THEN CHOOSE k \in 1..Len(stack) :
           stack[k].paren /\ \A j \in (k + 1)..Len(stack) : ~stack[j].paren
    ELSE 0

\* C37: when a CLOSE_GROUP token is accepted, the topmost "(" token of the
\* stack is the OPEN_GROUP token it closes and a node lies directly beneath it;
\* after the step the current node and the stack are what they were just before
\* that OPEN_GROUP token was taken.  When a whole record has been accepted the
\* stack is empty and the current node is the dummy root.
C37_StackDiscipline ==
  [][(~ps.done /\ sgf' = sgf) =>
       /\ (NextToken(sgf, ps.index).type = "RIGHT_PAREN" /\ ps'.err = "none") =>
            LET toks == Tokens(sgf)
                t == CHOOSE j \in 1..Len(toks) : toks[j].start = ps.index
                open == toks[MatchingOpen(toks, t)]
                k == TopParen(ps.stack)
                before == StateAt(ParserStart, sgf, open.start)
            IN /\ k >= 2
               /\ ps.stack[k].start = open.start /\ ps.stack[k].end = open.end
               /\ ~ps.stack[k - 1].paren
               /\ before.index = open.start
               /\ ps'.current = before.current
               /\ ps'.stack = before.stack
       /\ (ps'.done /\ ps'.err = "none") =>
            ps'.stack = << >> /\ ps'.current = Dummy]_vars

\* the group of a second SubTree has been closed, with the nodes of a Sequence
\* on the stack above its "(" token: the parser is back at the node the two
\* SubTrees hang from
C37_Witness ==
  /\ ~ps.done
  /\ ps.err = "none"
  /\ ps.parent = << None, 1, 2, 3, 2 >> \/ ps.parent = << None, 1, 1, 3 >>
  /\ ps.current = ps.parent[Len(ps.parent) - 1]
  /\ ps.current # Dummy
  /\ ps.next_can_be_right_paren /\ ~ps.next_can_be_semicolon
  /\ Len(ps.stack) >= 2

\* ---- the accelerated parser: node pool, worker and tree construction ----
\* everything but the accelerated parser stands still
PoolFrame == UNCHANGED << treeVars, solveVars, call, outcome, best_child, sgf, ps, go >>

\* node b is node a or one of its ancestors, by the parent indices pi
RECURSIVE OnPathToRoot(_, _, _)
OnPathToRoot(pi, a, b) ==
  a = b \/ (pi[a + 1] >= 0 /\ OnPathToRoot(pi, pi[a + 1], b))

\* the parents serialize_tree can report (cparser.py:86-112): the nodes are
\* numbered in depth-first order, node 0 has -1 and every other node hangs
\* from the node numbered before it or from one of that node's ancestors
ParentIndices ==
  { pi \in UNION { [1..k -> (-1)..(k - 2)] : k \in 1..MaxParsedNodes } :
      /\ pi[1] = -1
      /\ \A j \in 2..Len(pi) : pi[j] \in 0..(j - 2)
      /\ \A j \in 2..Len(pi) : OnPathToRoot(pi, j - 2, pi[j]) }

\* AllocateOnlyNodePool.allocate (cparser.py:135-142) with `allocated` nodes
\* made by the node allocator so far: the pool after it, the node handed out,
\* the allocator's count, and whether the assertion held
PoolAllocate(pool, allocated) ==
  IF pool.index >= pool.size
    THEN [pool |-> pool, node |-> allocated + 1, allocated |-> allocated + 1, ok |-> TRUE]
    ELSE [pool |-> [pool EXCEPT !.nodes[pool.index + 1] = None, !.index = @ + 1],
          node |-> pool.nodes[pool.index + 1], allocated |-> allocated,
          ok |-> pool.nodes[pool.index + 1] # None]

\* Thread.join returns without waiting
JoinReturnsAtOnce(t) == TRUE

\* Thread.join (cparser.py:239) returns when the worker has run to its end
Joined(t) == t.state = "finished"

\* parse up to the creation of the worker (cparser.py:151-164)
PoolParseCall ==
  /\ cp.pc = "idle"
  /\ node_pool' = NoPool
  /\ node_pool_thread' = [NoThread EXCEPT !.state = "created"]
  /\ cp' = [cp EXCEPT !.pc = "start"]
  /\ PoolFrame

\* self.node_pool_thread.start() (cparser.py:165)
PoolThreadStart ==
  /\ cp.pc = "start"
  /\ node_pool_thread' = [node_pool_thread EXCEPT !.state = "started"]
  /\ cp' = [cp EXCEPT !.pc = "_parse"]
  /\ UNCHANGED node_pool
  /\ PoolFrame

\* worker: estimated_size = sgf.count(';') and the first two assignments of
\* AllocateOnlyNodePool.__init__ (cparser.py:161, 130-131)
WorkerCount ==
  /\ node_pool_thread.state = "started"
  /\ node_pool_thread' = [node_pool_thread EXCEPT
                            !.state = "building",
                            !.estimated_size = cp.semicolons,
                            !.pool = [size |-> cp.semicolons, nodes |-> << >>, index |-> 0]]
  /\ UNCHANGED << node_pool, cp >>
  /\ PoolFrame

\* worker: one turn of the list comprehension of __init__ (cparser.py:132)
WorkerAllocate ==
  /\ node_pool_thread.state = "building"
  /\ Len(node_pool_thread.pool.nodes) < node_pool_thread.pool.size
  /\ node_pool_thread' = [node_pool_thread EXCEPT !.pool.nodes = Append(@, cp.allocated + 1)]
  /\ cp' = [cp EXCEPT !.allocated = @ + 1]
  /\ UNCHANGED node_pool
  /\ PoolFrame

\* worker: the pool is complete and is assigned to self.node_pool (cparser.py:133, 162-163)
WorkerPublish ==
  /\ node_pool_thread.state = "building"
  /\ Len(node_pool_thread.pool.nodes) = node_pool_thread.pool.size
  /\ node_pool' = node_pool_thread.pool
  /\ node_pool_thread' = [node_pool_thread EXCEPT !.state = "published"]
  /\ UNCHANGED cp
  /\ PoolFrame

\* worker: create_node_pool returns and the thread ends
WorkerExit ==
  /\ node_pool_thread.state = "published"
  /\ node_pool_thread' = [node_pool_thread EXCEPT !.state = "finished"]
  /\ UNCHANGED << node_pool, cp >>
  /\ PoolFrame

\* self._parse: the C++ parser runs and its tree is serialized (cparser.py:168-169)
PoolCParse ==
  /\ cp.pc = "_parse"
  /\ cp' = [cp EXCEPT !.pc = "prepare"]
  /\ UNCHANGED << node_pool, node_pool_thread >>
  /\ PoolFrame

\* _construct_tree up to the join (cparser.py:212-235)
PoolPrepare ==
  /\ cp.pc = "prepare"
  /\ cp' = [cp EXCEPT !.pc = "join",
                      !.nodes = [j \in 1..Len(cp.parent_indices) |-> None]]
  /\ UNCHANGED << node_pool, node_pool_thread >>
  /\ PoolFrame

\* self.node_pool_thread.join() (cparser.py:238-239)
PoolJoin ==
  /\ cp.pc = "join"
  /\ IF node_pool_thread.state = "none"
       THEN cp' = [cp EXCEPT !.pc = "AssertionError"]
       ELSE Joined(node_pool_thread) /\ cp' = [cp EXCEPT !.pc = "assert"]
  /\ UNCHANGED << node_pool, node_pool_thread >>
  /\ PoolFrame

\* assert self.node_pool is not None (cparser.py:240)
PoolAssert ==
  /\ cp.pc = "assert"
  /\ cp' = [cp EXCEPT !.pc = IF node_pool = NoPool THEN "AssertionError" ELSE "loop"]
  /\ UNCHANGED << node_pool, node_pool_thread >>
  /\ PoolFrame

\* one turn of the loop over the nodes (cparser.py:242-266)
PoolConstructNode ==
  /\ cp.pc = "loop"
  /\ cp.i < Len(cp.parent_indices)
  /\ LET a == PoolAllocate(node_pool, cp.allocated)
         parent_index == cp.parent_indices[cp.i + 1]
         made == [cp EXCEPT !.nodes[cp.i + 1] = a.node, !.allocated = a.allocated,
                            !.i = @ + 1]
     IN IF ~a.ok
          THEN /\ cp' = [cp EXCEPT !.pc = "AssertionError"]
               /\ UNCHANGED node_pool
          ELSE /\ node_pool' = a.pool
               /\ cp' = IF parent_index >= 0
                          THEN AddChild(made, cp.nodes[parent_index + 1], a.node)
                          ELSE made
  /\ UNCHANGED node_pool_thread
  /\ PoolFrame

\* root = nodes[0]; return root (cparser.py:268-270, 179)
PoolReturn ==
  /\ cp.pc = "loop"
  /\ cp.i = Len(cp.parent_indices)
  /\ cp' = [cp EXCEPT !.pc = "returned"]
  /\ UNCHANGED << node_pool, node_pool_thread >>
  /\ PoolFrame

\* one call of parse; the text has any number of ';' up to MaxPoolSize, and the
\* C++ parser, whose code is compiled from parser.hpp, reports any tree of up
\* to MaxParsedNodes nodes
PoolInit ==
  /\ InitSolver
  /\ sgf = << >>
  /\ ps = ParserStart
  /\ node_pool = NoPool
  /\ node_pool_thread = NoThread
  /\ \E n \in 0..MaxPoolSize, pi \in ParentIndices : cp = CpStart(n, pi)
  /\ go = GoStart(<< >>, << >>)

PoolNext ==
  \/ PoolParseCall
  \/ PoolThreadStart
  \/ WorkerCount
  \/ WorkerAllocate
  \/ WorkerPublish
  \/ WorkerExit
  \/ PoolCParse
  \/ PoolPrepare
  \/ PoolJoin
  \/ PoolAssert
  \/ PoolConstructNode
  \/ PoolReturn

PoolSpec == PoolInit /\ [][PoolNext]_vars

\* ---- C38 ------------------------------------------------------------------
\* the indices of the nodes whose parent index is j, in increasing order
RECURSIVE IndexKids(_, _, _)
IndexKids(pi, j, k) ==
  IF k > Len(pi) THEN << >>
  ELSE IF pi[k] = j THEN << k >> \o IndexKids(pi, j, k + 1)
  ELSE IndexKids(pi, j, k + 1)

\* C38: under every interleaving of the worker with the parsing thread, the
\* pool is read and nodes are allocated from it only when the worker has ended,
\* and then the pool is there and was whole when handed over (as many nodes as
\* its size, the first `index` of them taken); no assertion fails; no node is
\* handed out twice; and the tree returned is the one the parent indices
\* describe, whatever the size of the pool.
C38_PoolJoinedBeforeConstruction ==
  /\ cp.pc \in {"assert", "loop", "returned"} =>
       /\ node_pool_thread.state = "finished"
       /\ node_pool # NoPool
       /\ node_pool.size = cp.semicolons
       /\ Len(node_pool.nodes) = node_pool.size
       /\ \A k \in 1..Len(node_pool.nodes) :
            (node_pool.nodes[k] = None) <=> (k <= node_pool.index)
  /\ cp.pc # "AssertionError"
  /\ \A a, b \in 1..cp.i : a # b => cp.nodes[a] # cp.nodes[b]
  /\ \A a \in 1..cp.i : cp.nodes[a] \in 1..cp.allocated
  /\ cp.pc = "returned" =>
       \A j \in 1..Len(cp.parent_indices) :
         /\ cp.parent[cp.nodes[j]] =
              IF cp.parent_indices[j] = -1 THEN None
              ELSE cp.nodes[cp.parent_indices[j] + 1]
         /\ cp.children[cp.nodes[j]] =
              LET kids == IndexKids(cp.parent_indices, j - 1, 1)
              IN [k \in 1..Len(kids) |-> cp.nodes[kids[k]]]

\* a tree of three nodes has been built from a pool of one: the first node came
\* from the pool and the other two from the allocator
C38_Witness ==
  /\ cp.pc = "returned"
  /\ cp.semicolons = 1
  /\ cp.parent_indices = << -1, 0, 0 >>
  /\ node_pool.index = 1
  /\ cp.nodes = << 1, 2, 3 >>
  /\ cp.children[1] = << 2, 3 >>

\* ---- Go.compare_node ------------------------------------------------------
MaxValueLen == 2

\* the strings of up to MaxValueLen characters over "a" and "b"
GoValues == UNION { [1..k -> {"a", "b"}] : k \in 0..MaxValueLen }

\* the code point of a character
Ord(c) == IF c = "a" THEN 97 ELSE 98

\* v1 < v2 on str: the first character that differs decides, and a proper
\* prefix is less
RECURSIVE StrLess(_, _)
StrLess(v1, v2) ==
  IF v2 = << >> THEN FALSE
  ELSE IF v1 = << >> THEN TRUE
  ELSE IF Head(v1) # Head(v2) THEN Ord(Head(v1)) < Ord(Head(v2))
  ELSE StrLess(Tail(v1), Tail(v2))

\* the properties of a node with one move of the colour k, or with none
GoNode(k, v) == IF k = "none" THEN << >> ELSE << << << k >>, << v >> >> >>

GoNodes == { GoNode(k, v) : k \in {"B", "W"}, v \in GoValues } \cup { GoNode("none", << >>) }

\* `tag in node`
Contains(pr, tag) == \E k \in 1..Len(pr) : pr[k][1] = << tag >>

\* 0 if v1 == v2 else -1 if v1 < v2 else 1 (go.py:10, 15)
CompareValues(v1, v2) == IF v1 = v2 THEN 0 ELSE IF StrLess(v1, v2) THEN -1 ELSE 1

\* Go.compare_node (go.py:5-17)
CompareNode(node1, node2) ==
  IF Contains(node1, "B")
    THEN IF Contains(node2, "B")
           THEN CompareValues(ValuesUnder(node1, "B")[1], ValuesUnder(node2, "B")[1])
           ELSE -1
  ELSE IF Contains(node1, "W")
    THEN IF Contains(node2, "W")
           THEN CompareValues(ValuesUnder(node1, "W")[1], ValuesUnder(node2, "W")[1])
           ELSE 1
  ELSE 0

GoFrame ==
  UNCHANGED << treeVars, solveVars, call, outcome, best_child, sgf, ps, poolVars >>

\* compare_node(node1, node2)
GoCompare12 ==
  /\ ~go.called12
  /\ go' = [go EXCEPT !.called12 = TRUE, !.result12 = CompareNode(go.node1, go.node2)]
  /\ GoFrame

\* compare_node(node2, node1)
GoCompare21 ==
  /\ ~go.called21
  /\ go' = [go EXCEPT !.called21 = TRUE, !.result21 = CompareNode(go.node2, go.node1)]
  /\ GoFrame

GoInit ==
  /\ InitSolver
  /\ sgf = << >>
  /\ ps = ParserStart
  /\ node_pool = NoPool
  /\ node_pool_thread = NoThread
  /\ cp = CpStart(0, << -1 >>)
  /\ \E node1 \in GoNodes, node2 \in GoNodes : go = GoStart(node1, node2)

GoNext ==
  \/ GoCompare12
  \/ GoCompare21

GoSpec == GoInit /\ [][GoNext]_vars

\* ---- C39 ------------------------------------------------------------------
\* C39: for all nodes a and b, each with a B key, a W key or neither,
\* compare_node(a, b) and compare_node(b, a) have opposite signs, and the one
\* is 0 exactly when the other is.
C39_CompareNodeAntisymmetric ==
  (go.called12 /\ go.called21) => go.result12 = -go.result21

=============================================================================
